---------------------------- MODULE Spec2Model ----------------------------
(***************************************************************************)
(* A model of the CHIP-8 / SCHIP / XO-CHIP core of leina-chip8:            *)
(* the interpreter (Chip8::step), the block translator (Chip8::run_block,  *)
(* Chip8::compile_ins and the host code it emits) and the parts of the     *)
(* driver that call them.                                                  *)
(*                                                                         *)
(* The Chip8 struct is the record ch8.  The three large arrays (mem, vram, *)
(* try_jit) and the block cache (mems) are kept as sparse functions: an    *)
(* index that is not in the DOMAIN holds the array's default value (0, 0,  *)
(* TRUE, None), and no default value is ever stored, so that two arrays    *)
(* are equal exactly when the functions are.                               *)
(*                                                                         *)
(* Two fields of the record are not fields of the struct:                  *)
(*   fault            how the process ended ("none" while it runs):        *)
(*                    a panic!() of the code, a failed index or overflow   *)
(*                    check, or "ub" once emitted host code has accessed   *)
(*                    memory outside the object it indexes;                *)
(*   overflow_checks  the build profile: TRUE when integer overflow        *)
(*                    panics (debug), FALSE when it wraps (release).       *)
(***************************************************************************)
EXTENDS Integers, Sequences, FiniteSets, TLC

VARIABLES ch8, flags_file, prev, prev2, last, drv

vars == <<ch8, flags_file, prev, prev2, last, drv>>

(***************************************************************************)
(* Integer helpers: the u8/u16 operators of the source.                    *)
(***************************************************************************)
RECURSIVE BitAnd(_, _)
BitAnd(a, b) ==
    IF a = 0 \/ b = 0 THEN 0
    ELSE (a % 2) * (b % 2) + 2 * BitAnd(a \div 2, b \div 2)

RECURSIVE BitOr(_, _)
BitOr(a, b) ==
    IF a = 0 THEN b
    ELSE IF b = 0 THEN a
    ELSE (IF a % 2 = 1 \/ b % 2 = 1 THEN 1 ELSE 0) + 2 * BitOr(a \div 2, b \div 2)

RECURSIVE BitXor(_, _)
BitXor(a, b) ==
    IF a = 0 THEN b
    ELSE IF b = 0 THEN a
    ELSE (((a % 2) + (b % 2)) % 2) + 2 * BitXor(a \div 2, b \div 2)

RECURSIVE count_ones(_)
count_ones(a) == IF a = 0 THEN 0 ELSE (a % 2) + count_ones(a \div 2)

min(a, b) == IF a < b THEN a ELSE b

(***************************************************************************)
(* Sparse arrays.                                                          *)
(***************************************************************************)
Rd(arr, k, dflt) == IF k \in DOMAIN arr THEN arr[k] ELSE dflt

EmptyArr == [a \in {} |-> 0]

Wr(arr, k, v, dflt) ==
    IF Rd(arr, k, dflt) = v THEN arr
    ELSE IF v = dflt
    THEN EmptyArr @@ [a \in (DOMAIN arr) \ {k} |-> arr[a]]
    ELSE (k :> v) @@ arr

(***************************************************************************)
(* Sizes.                                                                  *)
(***************************************************************************)
WIDTH == 128
HEIGHT == 64
MEM_SIZE == 65536
JIT_SIZE == 16384

(***************************************************************************)
(* Chip8::new, Chip8::set_system, Chip8::load_rom                          *)
(***************************************************************************)
small_font ==
    << 240, 144, 144, 144, 240,   32,  96,  32,  32, 112,
       240,  16, 240, 128, 240,  240,  16, 240,  16, 240,
       144, 144, 240,  16,  16,  240, 128, 240,  16, 240,
       240, 128, 240, 144, 240,  240,  16,  32,  64,  64,
       240, 144, 240, 144, 240,  240, 144, 240,  16, 240,
       240, 144, 240, 144, 144,  224, 144, 224, 144, 224,
       240, 128, 128, 128, 240,  224, 144, 144, 144, 224,
       240, 128, 240, 128, 240,  240, 128, 240, 128, 128 >>

big_font ==
    << 255, 255, 195, 195, 195, 195, 195, 195, 255, 255,
        24, 120, 120,  24,  24,  24,  24,  24, 255, 255,
       255, 255,   3,   3, 255, 255, 192, 192, 255, 255,
       255, 255,   3,   3, 255, 255,   3,   3, 255, 255,
       195, 195, 195, 195, 255, 255,   3,   3,   3,   3,
       255, 255, 192, 192, 255, 255,   3,   3, 255, 255,
       255, 255, 192, 192, 255, 255, 195, 195, 255, 255,
       255, 255,   3,   3,   6,  12,  24,  24,  24,  24,
       255, 255, 195, 195, 255, 255, 195, 195, 255, 255,
       255, 255, 195, 195, 255, 255,   3,   3, 255, 255,
       126, 255, 195, 195, 195, 255, 255, 195, 195, 195,
       252, 252, 195, 195, 252, 252, 195, 195, 252, 252,
        60, 255, 195, 192, 192, 192, 192, 195, 255,  60,
       252, 254, 195, 195, 195, 195, 195, 195, 254, 252,
       255, 255, 192, 192, 255, 255, 192, 192, 255, 255,
       255, 255, 192, 192, 255, 255, 192, 192, 192, 192 >>

set_system(c, system) ==
    CASE system = "CHIP8" ->
           [c EXCEPT !.quirk_vf_reset = TRUE, !.quirk_memory = TRUE,
                     !.quirk_disp_wait = TRUE, !.quirk_clipping = TRUE,
                     !.quirk_shifting = FALSE, !.quirk_jumping = FALSE,
                     !.quirk_disp_wait_lores = TRUE,
                     !.quirk_scroll_full_lores = TRUE,
                     !.system = system]
      [] system = "LSCHIP" ->
           [c EXCEPT !.quirk_vf_reset = FALSE, !.quirk_memory = FALSE,
                     !.quirk_disp_wait = TRUE, !.quirk_clipping = TRUE,
                     !.quirk_shifting = TRUE, !.quirk_jumping = TRUE,
                     !.quirk_disp_wait_lores = TRUE,
                     !.quirk_scroll_full_lores = FALSE,
                     !.system = system]
      [] system = "MSCHIP" ->
           [c EXCEPT !.quirk_vf_reset = FALSE, !.quirk_memory = FALSE,
                     !.quirk_disp_wait = TRUE, !.quirk_clipping = TRUE,
                     !.quirk_shifting = TRUE, !.quirk_jumping = TRUE,
                     !.quirk_disp_wait_lores = FALSE,
                     !.quirk_scroll_full_lores = TRUE,
                     !.system = system]
      [] system = "XOCHIP" ->
           [c EXCEPT !.quirk_vf_reset = FALSE, !.quirk_memory = TRUE,
                     !.quirk_disp_wait = TRUE, !.quirk_clipping = FALSE,
                     !.quirk_shifting = FALSE, !.quirk_jumping = FALSE,
                     !.quirk_disp_wait_lores = FALSE,
                     !.quirk_scroll_full_lores = TRUE,
                     !.system = system]

new(checks) ==
    set_system(
      [ mem   |-> [a \in 80 .. 319 |->
                     IF a < 160 THEN small_font[a - 79] ELSE big_font[a - 159]],
        vram  |-> EmptyArr,
        i     |-> 0,
        pc    |-> 512,
        regs  |-> [r \in 0 .. 15 |-> 0],
        stack |-> [s \in 0 .. 15 |-> 0],
        sp    |-> 0,
        halted |-> FALSE,
        halt_reg |-> 0,
        halt_wait_for_release |-> FALSE,
        delay |-> 0,
        sound |-> 0,
        wait_vblank |-> TRUE,
        hires |-> FALSE,
        plane |-> 1,
        audio_buf |-> [b \in 0 .. 15 |-> 0],
        pitch |-> 0,
        paused |-> TRUE,
        keys_held |-> [k \in 0 .. 15 |-> FALSE],
        system |-> "CHIP8",
        quirk_vf_reset |-> FALSE,
        quirk_memory |-> FALSE,
        quirk_disp_wait |-> FALSE,
        quirk_clipping |-> FALSE,
        quirk_shifting |-> FALSE,
        quirk_jumping |-> FALSE,
        quirk_disp_wait_lores |-> FALSE,
        quirk_scroll_full_lores |-> FALSE,
        quirk_16_colors |-> TRUE,
        mems |-> EmptyArr,
        try_jit |-> EmptyArr,
        inf_loop |-> FALSE,
        jit_cyc |-> 0,
        fault |-> "none",
        overflow_checks |-> checks ],
      "XOCHIP")

\* self.mem[0x200 + i] = rom[i] for the bytes of rom from the k-th on
load_byte(m, rom, k, a) ==
    IF a - 511 \in k .. Len(rom) THEN rom[a - 511] ELSE Rd(m, a, 0)

load_bytes(m, rom, k) ==
    EmptyArr @@ [a \in {b \in DOMAIN m \cup (511 + k .. 511 + Len(rom)) :
                          load_byte(m, rom, k, b) # 0} |->
                   load_byte(m, rom, k, a)]

load_rom(c, rom) ==
    IF 512 + Len(rom) > MEM_SIZE
    THEN [c EXCEPT !.fault = "index"]
    ELSE [c EXCEPT !.mem = load_bytes(c.mem, rom, 1)]

(***************************************************************************)
(* Faults and checked arithmetic.                                          *)
(***************************************************************************)
Panic(c, why) == IF c.fault = "none" THEN [c EXCEPT !.fault = why] ELSE c

\* a u16 / u8 addition or subtraction whose mathematical result is v:
\* a panic of a debug build when v leaves the type, the wrapped value otherwise
Overflows(c, v, modulus) == c.overflow_checks /\ (v < 0 \/ v >= modulus)

Wrap(v, modulus) == v % modulus

\* self.mem[a] (a bounds-checked index of the boxed slice)
MemRd(c, a) == Rd(c.mem, a, 0)

MemWr(c, a, v) ==
    IF a >= MEM_SIZE THEN Panic(c, "index")
    ELSE [c EXCEPT !.mem = Wr(c.mem, a, v, 0)]

(***************************************************************************)
(* Decoder                                                                 *)
(***************************************************************************)
Word(hi, lo) == hi * 256 + lo

OpAt(c, pc) == Word(MemRd(c, pc), MemRd(c, pc + 1))

N0(op) == op \div 4096
X(op) == (op \div 256) % 16
Y(op) == (op \div 16) % 16
NNN(op) == op % 4096
NN(op) == op % 256
N(op) == op % 16

(***************************************************************************)
(* Chip8::skip_ins                                                         *)
(***************************************************************************)
\* skip_len taking F0 00 for the long instruction on every system
skip_len_any_system(c) ==
    IF MemRd(c, c.pc) = 240 /\ MemRd(c, c.pc + 1) = 0 THEN 4 ELSE 2

skip_len(c) ==
    IF c.system = "XOCHIP" /\ MemRd(c, c.pc) = 240 /\ MemRd(c, c.pc + 1) = 0
    THEN 4 ELSE 2

skip_ins(c) ==
    IF c.system = "XOCHIP" /\ MemRd(c, c.pc) = 240 /\ c.pc + 1 >= MEM_SIZE
    THEN Panic(c, "index")
    ELSE IF Overflows(c, c.pc + skip_len(c), 65536)
    THEN Panic(c, "overflow")
    ELSE [c EXCEPT !.pc = Wrap(c.pc + skip_len(c), 65536)]

(***************************************************************************)
(* Chip8::step, halted                                                     *)
(***************************************************************************)
KeysDown(c) == {k \in 0 .. 15 : c.keys_held[k]}

\* lowest_key scanning the keys from the top
lowest_key_from_top(c) == CHOOSE k \in KeysDown(c) : \A k2 \in KeysDown(c) : k >= k2

lowest_key(c) == CHOOSE k \in KeysDown(c) : \A k2 \in KeysDown(c) : k <= k2

\* halt_await_press with the program counter advanced as soon as a key is
\* latched
halt_await_press_advancing(c) ==
    IF KeysDown(c) = {} THEN c
    ELSE [c EXCEPT !.regs[c.halt_reg] = lowest_key(c),
                   !.halt_wait_for_release = TRUE,
                   !.pc = Wrap(c.pc + 2, 65536)]

halt_await_press(c) ==
    IF KeysDown(c) = {} THEN c
    ELSE [c EXCEPT !.regs[c.halt_reg] = lowest_key(c),
                   !.halt_wait_for_release = TRUE]

halt_await_release(c) ==
    LET key_held == c.regs[c.halt_reg] IN
    IF key_held > 15 THEN Panic(c, "index")
    ELSE IF c.keys_held[key_held] THEN c
    ELSE IF Overflows(c, c.pc + 2, 65536) THEN Panic(c, "overflow")
    ELSE [c EXCEPT !.halted = FALSE, !.pc = Wrap(c.pc + 2, 65536)]

step_halted(c) ==
    IF ~c.halt_wait_for_release THEN halt_await_press(c)
    ELSE halt_await_release(c)

(***************************************************************************)
(* Sprite drawing: the plane / row / byte / bit loops of DXYN.             *)
(* The loop state s is [vram, xord, fault, drawx, drawy, i, reads].  clip   *)
(* is self.quirk_clipping in Chip8::step; xo_draw has no clipping tests.   *)
(***************************************************************************)
VramRd(s, offs) == Rd(s.vram, offs, 0)

\* VramXor setting the plane bit instead of toggling it
VramSet(s, offs, planeid) ==
    [s EXCEPT !.vram = Wr(s.vram, offs, BitOr(Rd(s.vram, offs, 0), planeid), 0)]

VramXor(s, offs, planeid) ==
    [s EXCEPT !.vram = Wr(s.vram, offs, BitXor(Rd(s.vram, offs, 0), planeid), 0)]

plot_hires(s, planeid, offs) ==
    IF offs >= WIDTH * HEIGHT THEN [s EXCEPT !.fault = "index"]
    ELSE LET hit == BitAnd(VramRd(s, offs), planeid) # 0 IN
         VramXor([s EXCEPT !.xord = s.xord \/ hit], offs, planeid)

\* plot_lores testing only the top-left cell of the 2x2 block
plot_lores_corner(s, planeid, offs) ==
    IF offs + WIDTH + 1 >= WIDTH * HEIGHT THEN [s EXCEPT !.fault = "index"]
    ELSE LET hit == BitAnd(VramRd(s, offs), planeid) # 0
         IN VramXor(VramXor(VramXor(VramXor(
                [s EXCEPT !.xord = s.xord \/ hit],
                offs, planeid), offs + 1, planeid),
                offs + WIDTH, planeid), offs + WIDTH + 1, planeid)

plot_lores(s, planeid, offs) ==
    IF offs + WIDTH + 1 >= WIDTH * HEIGHT THEN [s EXCEPT !.fault = "index"]
    ELSE LET hit == ( BitAnd(VramRd(s, offs), planeid)
                    + BitAnd(VramRd(s, offs + 1), planeid)
                    + BitAnd(VramRd(s, offs + WIDTH), planeid)
                    + BitAnd(VramRd(s, offs + WIDTH + 1), planeid) ) # 0
         IN VramXor(VramXor(VramXor(VramXor(
                [s EXCEPT !.xord = s.xord \/ hit],
                offs, planeid), offs + 1, planeid),
                offs + WIDTH, planeid), offs + WIDTH + 1, planeid)

\* plot drawing the 2x2 block in hi-res as well
plot_always_lores(s, hires, planeid, offs) == plot_lores(s, planeid, offs)

plot(s, hires, planeid, offs) ==
    IF hires THEN plot_hires(s, planeid, offs) ELSE plot_lores(s, planeid, offs)

RECURSIVE draw_bits(_, _, _, _, _, _)
draw_bits(s, hires, clip, planeid, byte, j) ==
    IF j >= 8 \/ s.fault # "none" THEN s
    ELSE IF clip /\ s.drawx >= WIDTH THEN s
    ELSE LET bit_set == ((byte \div (2 ^ (7 - j))) % 2) = 1
             drawx == s.drawx % WIDTH
             draw_offs == s.drawy * WIDTH + drawx
             s1 == IF bit_set THEN plot(s, hires, planeid, draw_offs) ELSE s
         IN draw_bits([s1 EXCEPT !.drawx = drawx + (IF hires THEN 1 ELSE 2)],
                      hires, clip, planeid, byte, j + 1)

RECURSIVE draw_bytes(_, _, _, _, _, _, _)
draw_bytes(s, c, clip, planeid, src, byte_width, k) ==
    IF k >= byte_width \/ s.fault # "none" THEN s
    ELSE IF src + s.i >= MEM_SIZE THEN [s EXCEPT !.fault = "index"]
    ELSE draw_bytes(
           draw_bits([s EXCEPT !.i = s.i + 1,
                               !.reads = Append(s.reads, src + s.i)],
                     c.hires, clip, planeid, MemRd(c, src + s.i), 0),
           c, clip, planeid, src, byte_width, k + 1)

RECURSIVE draw_rows(_, _, _, _, _, _, _, _)
draw_rows(s, c, clip, planeid, src, byte_width, num_bytes, startx) ==
    IF s.i >= num_bytes \/ s.fault # "none" THEN s
    ELSE LET s1 == draw_bytes([s EXCEPT !.drawx = startx], c, clip, planeid,
                              src, byte_width, 0)
             drawy == s1.drawy + (IF c.hires THEN 1 ELSE 2)
         IN IF drawy = HEIGHT
            THEN IF clip THEN [s1 EXCEPT !.drawy = drawy]
                 ELSE draw_rows([s1 EXCEPT !.drawy = 0], c, clip, planeid, src,
                                byte_width, num_bytes, startx)
            ELSE draw_rows([s1 EXCEPT !.drawy = drawy], c, clip, planeid, src,
                           byte_width, num_bytes, startx)

RECURSIVE draw_planes(_, _, _, _, _, _, _, _, _)
draw_planes(s, c, clip, planeid, src, byte_width, num_bytes, startx, starty) ==
    IF planeid >= 16 \/ s.fault # "none" THEN s
    ELSE IF BitAnd(c.plane, planeid) # 0
    THEN draw_planes(
           draw_rows([s EXCEPT !.drawy = starty, !.i = 0], c, clip, planeid,
                     src, byte_width, num_bytes, startx),
           c, clip, planeid * 2, src + num_bytes, byte_width, num_bytes,
           startx, starty)
    ELSE draw_planes(s, c, clip, planeid * 2, src, byte_width, num_bytes,
                     startx, starty)

\* start_coord without the doubling of lo-res coordinates
start_coord_unscaled(c, v, size) == v % size

start_coord(c, v, size) == (IF c.hires THEN v ELSE v * 2) % size

\* the loops' state after the last plane; reads lists the addresses of the
\* sprite bytes fetched by self.mem[src + i]
drawn(c, x, y, byte_width, num_bytes, clip) ==
    draw_planes(
      [vram |-> c.vram, xord |-> FALSE, fault |-> "none",
       drawx |-> 0, drawy |-> 0, i |-> 0, reads |-> << >>],
      c, clip, 1, c.i, byte_width, num_bytes,
      start_coord(c, c.regs[x], WIDTH),
      start_coord(c, c.regs[y], HEIGHT))

sprite(c, x, y, byte_width, num_bytes, clip) ==
    LET s == drawn(c, x, y, byte_width, num_bytes, clip)
    IN IF s.fault # "none" THEN Panic(c, s.fault)
       ELSE [c EXCEPT !.vram = s.vram,
                      !.regs[15] = IF s.xord THEN 1 ELSE 0]

\* extern "sysv64" fn xo_draw
xo_draw(c, x, y, byte_width, num_bytes) ==
    sprite(c, x, y, byte_width, num_bytes, FALSE)

\* extern "sysv64" fn xo_clear, and 00E0 of Chip8::step
\* for i in 0..WIDTH * HEIGHT { vram[i] &= mask }: the cells that hold zero
\* stay zero
clear_cells(v, mask) ==
    EmptyArr @@ [k \in {a \in DOMAIN v : BitAnd(v[a], mask) # 0} |->
                   BitAnd(v[k], mask)]

\* xo_clear emptying the screen, whatever the plane mask
xo_clear_all(c) == [c EXCEPT !.vram = EmptyArr]

xo_clear(c) == [c EXCEPT !.vram = clear_cells(c.vram, 255 - c.plane)]

op_DXYN(c, x, y, n) ==
    LET d == sprite(c, x, y, IF n = 0 THEN 2 ELSE 1, IF n = 0 THEN 32 ELSE n,
                    c.quirk_clipping)
    IN IF d.fault # "none" THEN d
       ELSE IF c.quirk_disp_wait /\ ~c.hires /\ c.quirk_disp_wait_lores
       THEN [d EXCEPT !.wait_vblank = TRUE]
       ELSE d

(***************************************************************************)
(* Scrolling: 00CN, 00DN, 00FB, 00FC of Chip8::step, in the order of the   *)
(* source's loops (the moves are done in place).                           *)
(***************************************************************************)
scroll_times(c) == IF ~c.hires /\ c.quirk_scroll_full_lores THEN 2 ELSE 1

\* move_cell copying the whole byte, whatever the plane mask
move_cell_whole(v, plane, draw_offs, src_offs) ==
    Wr(v, draw_offs, Rd(v, src_offs, 0), 0)

move_cell(v, plane, draw_offs, src_offs) ==
    Wr(v, draw_offs,
       BitOr(BitAnd(Rd(v, draw_offs, 0), 255 - plane),
             BitAnd(Rd(v, src_offs, 0), plane)), 0)

clear_cell(v, plane, offs) ==
    Wr(v, offs, BitAnd(Rd(v, offs, 0), 255 - plane), 0)

\* for i in k..count { vram[base + i * stride] &= plane_mask }
RECURSIVE clear_run(_, _, _, _, _, _)
clear_run(v, plane, base, stride, k, count) ==
    IF k >= count THEN v
    ELSE clear_run(clear_cell(v, plane, base + k * stride), plane, base, stride,
                   k + 1, count)

(* A loop's state w is the VRAM so far and the loop variable.  A loop      *)
(* "for k in w.k..hi" runs its iterations in the source's order: the one   *)
(* iteration if the range holds one value, and otherwise the first half of *)
(* the range and then, from the state that leaves, the rest.               *)
Loop(v, k) == [v |-> v, k |-> k]

\* for row_from_bottom in 0..(HEIGHT - n)
RECURSIVE down_rows(_, _, _, _, _)
down_rows(w, plane, n, col, hi) ==
    IF w.k >= hi THEN w
    ELSE IF hi = w.k + 1
    THEN Loop(move_cell(w.v, plane, (HEIGHT - 1 - w.k) * WIDTH + col,
                        (HEIGHT - 1 - w.k) * WIDTH + col - WIDTH * n),
              w.k + 1)
    ELSE down_rows(down_rows(w, plane, n, col, (w.k + hi) \div 2),
                  plane, n, col, hi)

\* for col in 0..WIDTH
RECURSIVE down_cols(_, _, _, _)
down_cols(w, plane, n, hi) ==
    IF w.k >= hi THEN w
    ELSE IF hi = w.k + 1
    THEN Loop(clear_run(down_rows(Loop(w.v, 0), plane, n, w.k, HEIGHT - n).v,
                        plane, w.k, WIDTH, 0, n),
              w.k + 1)
    ELSE down_cols(down_cols(w, plane, n, (w.k + hi) \div 2),
                  plane, n, hi)

\* for row in 0..(HEIGHT - n)
RECURSIVE up_rows(_, _, _, _, _)
up_rows(w, plane, n, col, hi) ==
    IF w.k >= hi THEN w
    ELSE IF hi = w.k + 1
    THEN Loop(move_cell(w.v, plane, w.k * WIDTH + col,
                        w.k * WIDTH + col + WIDTH * n),
              w.k + 1)
    ELSE up_rows(up_rows(w, plane, n, col, (w.k + hi) \div 2),
                plane, n, col, hi)

\* for col in 0..WIDTH
RECURSIVE up_cols(_, _, _, _)
up_cols(w, plane, n, hi) ==
    IF w.k >= hi THEN w
    ELSE IF hi = w.k + 1
    THEN Loop(clear_run(up_rows(Loop(w.v, 0), plane, n, w.k, HEIGHT - n).v,
                        plane, w.k + (HEIGHT - n) * WIDTH, WIDTH, 0, n),
              w.k + 1)
    ELSE up_cols(up_cols(w, plane, n, (w.k + hi) \div 2),
                plane, n, hi)

\* for col_from_right in 0..(WIDTH - 4)
RECURSIVE right_cols(_, _, _, _)
right_cols(w, plane, row, hi) ==
    IF w.k >= hi THEN w
    ELSE IF hi = w.k + 1
    THEN Loop(move_cell(w.v, plane, row * WIDTH + (WIDTH - 1 - w.k),
                        row * WIDTH + (WIDTH - 1 - w.k) - 4),
              w.k + 1)
    ELSE right_cols(right_cols(w, plane, row, (w.k + hi) \div 2),
                   plane, row, hi)

\* for row in 0..HEIGHT
RECURSIVE right_rows(_, _, _)
right_rows(w, plane, hi) ==
    IF w.k >= hi THEN w
    ELSE IF hi = w.k + 1
    THEN Loop(clear_run(right_cols(Loop(w.v, 0), plane, w.k, WIDTH - 4).v,
                        plane, w.k * WIDTH, 1, 0, 4),
              w.k + 1)
    ELSE right_rows(right_rows(w, plane, (w.k + hi) \div 2),
                   plane, hi)

\* for col in 0..(WIDTH - 4)
RECURSIVE left_cols(_, _, _, _)
left_cols(w, plane, row, hi) ==
    IF w.k >= hi THEN w
    ELSE IF hi = w.k + 1
    THEN Loop(move_cell(w.v, plane, row * WIDTH + w.k, row * WIDTH + w.k + 4),
              w.k + 1)
    ELSE left_cols(left_cols(w, plane, row, (w.k + hi) \div 2),
                  plane, row, hi)

\* for row in 0..HEIGHT
RECURSIVE left_rows(_, _, _)
left_rows(w, plane, hi) ==
    IF w.k >= hi THEN w
    ELSE IF hi = w.k + 1
    THEN Loop(clear_run(left_cols(Loop(w.v, 0), plane, w.k, WIDTH - 4).v,
                        plane, (w.k + 1) * WIDTH - 4, 1, 0, 4),
              w.k + 1)
    ELSE left_rows(left_rows(w, plane, (w.k + hi) \div 2),
                  plane, hi)

\* for _ in 0..scroll_times
RECURSIVE scroll_pass(_, _, _, _, _)
scroll_pass(v, plane, dir, n, times) ==
    IF times = 0 THEN v
    ELSE scroll_pass(
           CASE dir = "down" -> down_cols(Loop(v, 0), plane, n, WIDTH).v
             [] dir = "up" -> up_cols(Loop(v, 0), plane, n, WIDTH).v
             [] dir = "right" -> right_rows(Loop(v, 0), plane, HEIGHT).v
             [] dir = "left" -> left_rows(Loop(v, 0), plane, HEIGHT).v,
           plane, dir, n, times - 1)

op_00CN(c, n) ==
    IF c.system = "CHIP8" \/ n = 0 THEN c
    ELSE [c EXCEPT !.vram = scroll_pass(c.vram, c.plane, "down", n, scroll_times(c))]

op_00DN(c, n) ==
    IF c.system # "XOCHIP" \/ n = 0 THEN c
    ELSE [c EXCEPT !.vram = scroll_pass(c.vram, c.plane, "up", n, scroll_times(c))]

op_00FB(c) ==
    IF c.system = "CHIP8" THEN c
    ELSE [c EXCEPT !.vram = scroll_pass(c.vram, c.plane, "right", 0, scroll_times(c))]

op_00FC(c) ==
    IF c.system = "CHIP8" THEN c
    ELSE [c EXCEPT !.vram = scroll_pass(c.vram, c.plane, "left", 0, scroll_times(c))]

(***************************************************************************)
(* Chip8::step, one definition per opcode.  c is the state after the fetch *)
(* (PC already advanced past the two opcode bytes).                        *)
(***************************************************************************)
op_00E0(c) == [c EXCEPT !.vram = clear_cells(c.vram, 255 - c.plane)]

op_00EE(c) ==
    IF c.sp = 0 THEN Panic(c, IF c.overflow_checks THEN "overflow" ELSE "index")
    ELSE IF c.sp - 1 > 15 THEN Panic(c, "index")
    ELSE [c EXCEPT !.sp = c.sp - 1, !.pc = c.stack[c.sp - 1]]

op_00FD(c) == IF c.system = "CHIP8" THEN c ELSE Panic(c, "exit")

op_00FE(c) == IF c.system = "CHIP8" THEN c ELSE [c EXCEPT !.hires = FALSE]

op_00FF(c) == IF c.system = "CHIP8" THEN c ELSE [c EXCEPT !.hires = TRUE]

op_1NNN(c, nnn) == [c EXCEPT !.pc = nnn]

\* op_2NNN storing the address of the call itself
op_2NNN_call_site(c, nnn) ==
    IF c.sp > 15 THEN Panic(c, "index")
    ELSE [c EXCEPT !.stack[c.sp] = c.pc - 2, !.sp = c.sp + 1, !.pc = nnn]

op_2NNN(c, nnn) ==
    IF c.sp > 15 THEN Panic(c, "index")
    ELSE [c EXCEPT !.stack[c.sp] = c.pc, !.sp = c.sp + 1, !.pc = nnn]

op_3XNN(c, x, nn) == IF c.regs[x] = nn THEN skip_ins(c) ELSE c

op_4XNN(c, x, nn) == IF c.regs[x] # nn THEN skip_ins(c) ELSE c

op_5XY0(c, x, y) == IF c.regs[x] = c.regs[y] THEN skip_ins(c) ELSE c

RECURSIVE save_regs(_, _, _, _)
save_regs(c, reg, last_reg, addr) ==
    IF reg > last_reg \/ c.fault # "none" THEN c
    ELSE save_regs(MemWr(c, addr, c.regs[reg]), reg + 1, last_reg, addr + 1)

RECURSIVE load_regs(_, _, _, _)
load_regs(c, reg, last_reg, addr) ==
    IF reg > last_reg \/ c.fault # "none" THEN c
    ELSE IF addr >= MEM_SIZE THEN Panic(c, "index")
    ELSE load_regs([c EXCEPT !.regs[reg] = MemRd(c, addr)], reg + 1, last_reg, addr + 1)

op_5XY2(c, x, y) == IF c.system # "XOCHIP" THEN c ELSE save_regs(c, x, y, c.i)

op_5XY3(c, x, y) == IF c.system # "XOCHIP" THEN c ELSE load_regs(c, x, y, c.i)

op_6XNN(c, x, nn) == [c EXCEPT !.regs[x] = nn]

op_7XNN(c, x, nn) == [c EXCEPT !.regs[x] = (c.regs[x] + nn) % 256]

\* vf_reset with the quirk never applied
vf_reset_never(c) == c

vf_reset(c) == IF c.quirk_vf_reset THEN [c EXCEPT !.regs[15] = 0] ELSE c

op_8XY0(c, x, y) == [c EXCEPT !.regs[x] = c.regs[y]]

op_8XY1(c, x, y) == vf_reset([c EXCEPT !.regs[x] = BitOr(c.regs[x], c.regs[y])])

op_8XY2(c, x, y) == vf_reset([c EXCEPT !.regs[x] = BitAnd(c.regs[x], c.regs[y])])

op_8XY3(c, x, y) == vf_reset([c EXCEPT !.regs[x] = BitXor(c.regs[x], c.regs[y])])

\* set_result_flag writing the flag before the result
set_flag_result(c, x, res, flag) ==
    [[c EXCEPT !.regs[15] = flag] EXCEPT !.regs[x] = res]

\* regs[x] = res; regs[0xf] = flag  (two assignments, in this order)
set_result_flag(c, x, res, flag) ==
    [[c EXCEPT !.regs[x] = res] EXCEPT !.regs[15] = flag]

op_8XY4(c, x, y) ==
    set_result_flag(c, x, (c.regs[x] + c.regs[y]) % 256,
                    IF c.regs[x] + c.regs[y] > 255 THEN 1 ELSE 0)

op_8XY5(c, x, y) ==
    set_result_flag(c, x, (c.regs[x] - c.regs[y]) % 256,
                    IF c.regs[x] - c.regs[y] < 0 THEN 0 ELSE 1)

\* shift_src ignoring the shifting quirk
shift_src_vy(c, x, y) == y

shift_src(c, x, y) == IF c.quirk_shifting THEN x ELSE y

op_8XY6(c, x, y) ==
    set_result_flag(c, x, c.regs[shift_src(c, x, y)] \div 2,
                    c.regs[shift_src(c, x, y)] % 2)

op_8XY7(c, x, y) ==
    set_result_flag(c, x, (c.regs[y] - c.regs[x]) % 256,
                    IF c.regs[y] - c.regs[x] < 0 THEN 0 ELSE 1)

op_8XYE(c, x, y) ==
    set_result_flag(c, x, (c.regs[shift_src(c, x, y)] * 2) % 256,
                    c.regs[shift_src(c, x, y)] \div 128)

op_9XY0(c, x, y, n) ==
    IF n = 0 /\ c.regs[x] # c.regs[y] THEN skip_ins(c) ELSE c

op_ANNN(c, nnn) == [c EXCEPT !.i = nnn]

op_BNNN(c, x, nnn) ==
    [c EXCEPT !.pc = nnn + c.regs[IF c.quirk_jumping THEN x ELSE 0]]

op_CXNN(c, x, nn, rnd) == [c EXCEPT !.regs[x] = BitAnd(rnd, nn)]

op_EX9E(c, x) ==
    IF c.regs[x] > 15 THEN Panic(c, "index")
    ELSE IF c.keys_held[c.regs[x]] THEN skip_ins(c) ELSE c

op_EXA1(c, x) ==
    IF c.regs[x] > 15 THEN Panic(c, "index")
    ELSE IF ~c.keys_held[c.regs[x]] THEN skip_ins(c) ELSE c

op_F000(c, x) ==
    IF x # 0 \/ c.system # "XOCHIP" THEN c
    ELSE IF Overflows(c, c.pc + 2, 65536) THEN Panic(c, "overflow")
    ELSE [c EXCEPT !.i = Word(MemRd(c, c.pc), MemRd(c, Wrap(c.pc + 1, 65536))),
                   !.pc = Wrap(c.pc + 2, 65536)]

\* op_FX01 storing the nibble in the high half of the mask
op_FX01_high(c, x) ==
    IF c.system # "XOCHIP" THEN c ELSE [c EXCEPT !.plane = 16 * x]

op_FX01(c, x) == IF c.system # "XOCHIP" THEN c ELSE [c EXCEPT !.plane = x]

op_FX02(c, x) ==
    IF x # 0 \/ c.system # "XOCHIP" THEN c
    ELSE IF c.i + 15 >= MEM_SIZE THEN Panic(c, "index")
    ELSE [c EXCEPT !.audio_buf = [b \in 0 .. 15 |-> MemRd(c, c.i + b)]]

op_FX07(c, x) == [c EXCEPT !.regs[x] = c.delay]

op_FX0A(c, x) ==
    IF Overflows(c, c.pc - 2, 65536) THEN Panic(c, "overflow")
    ELSE [c EXCEPT !.halted = TRUE, !.halt_reg = x,
                   !.halt_wait_for_release = FALSE,
                   !.pc = Wrap(c.pc - 2, 65536)]

op_FX15(c, x) == [c EXCEPT !.delay = c.regs[x]]

op_FX18(c, x) == [c EXCEPT !.sound = c.regs[x]]

op_FX1E(c, x) ==
    IF Overflows(c, c.i + c.regs[x], 65536) THEN Panic(c, "overflow")
    ELSE [c EXCEPT !.i = IF c.system # "XOCHIP"
                         THEN Wrap(c.i + c.regs[x], 65536) % 4096
                         ELSE Wrap(c.i + c.regs[x], 65536)]

op_FX29(c, x) == [c EXCEPT !.i = c.regs[x] * 5 + 80]

op_FX30(c, x) ==
    IF c.system = "CHIP8" THEN c ELSE [c EXCEPT !.i = c.regs[x] * 10 + 160]

op_FX33(c, x) ==
    MemWr(MemWr(MemWr(c, c.i, c.regs[x] \div 100),
                c.i + 1, (c.regs[x] % 100) \div 10),
          c.i + 2, (c.regs[x] % 100) % 10)

op_FX3A(c, x) == IF c.system # "XOCHIP" THEN c ELSE [c EXCEPT !.pitch = c.regs[x]]

advance_i(c, x) ==
    IF ~c.quirk_memory \/ c.fault # "none" THEN c
    ELSE IF Overflows(c, c.i + x + 1, 65536) THEN Panic(c, "overflow")
    ELSE [c EXCEPT !.i = Wrap(c.i + x + 1, 65536)]

op_FX55(c, x) == advance_i(save_regs(c, 0, x, c.i), x)

op_FX65(c, x) == advance_i(load_regs(c, 0, x, c.i), x)

(***************************************************************************)
(* FX75 / FX85: the flag file.  A file is [exists, bytes].                 *)
(***************************************************************************)
NoFile == [exists |-> FALSE, bytes |-> << >>]

ZeroFlags == [k \in 1 .. 16 |-> 0]

\* flag_count without the SCHIP limit of eight flags
flag_count_unclamped(c, x) == x

flag_count(c, x) == IF c.system = "XOCHIP" THEN x ELSE min(x, 7)

\* File::open(..) followed by read_exact of 16 bytes
read_fails(file) == file.exists /\ Len(file.bytes) < 16

op_FX75(c, x, file) ==
    IF c.system = "CHIP8" THEN c
    ELSE IF read_fails(file) THEN Panic(c, "io")
    ELSE c

file_FX75(c, x, file) ==
    IF c.system = "CHIP8" \/ read_fails(file) THEN file
    ELSE [exists |-> TRUE,
          bytes |-> [k \in 1 .. 16 |->
                       IF k - 1 <= flag_count(c, x) THEN c.regs[k - 1]
                       ELSE IF file.exists THEN file.bytes[k] ELSE 0]]

op_FX85(c, x, file) ==
    IF c.system = "CHIP8" THEN c
    ELSE IF read_fails(file) THEN Panic(c, "io")
    ELSE [c EXCEPT !.regs = [r \in 0 .. 15 |->
                               IF r <= flag_count(c, x)
                               THEN (IF file.exists THEN file.bytes[r + 1] ELSE 0)
                               ELSE c.regs[r]]]

file_FX85(c, x, file) ==
    IF c.system = "CHIP8" \/ file.exists THEN file
    ELSE [exists |-> TRUE, bytes |-> ZeroFlags]

(***************************************************************************)
(* Chip8::step                                                             *)
(***************************************************************************)
Unknown(c) == Panic(c, "unknown_opcode")

dispatch_0(c, op) ==
    LET nnn == NNN(op) IN
    CASE nnn \in 192 .. 207 -> op_00CN(c, N(op))
      [] nnn \in 208 .. 223 -> op_00DN(c, N(op))
      [] nnn = 224 -> op_00E0(c)
      [] nnn = 238 -> op_00EE(c)
      [] nnn = 251 -> op_00FB(c)
      [] nnn = 252 -> op_00FC(c)
      [] nnn = 253 -> op_00FD(c)
      [] nnn = 254 -> op_00FE(c)
      [] nnn = 255 -> op_00FF(c)
      [] OTHER -> Unknown(c)

dispatch_5(c, op) ==
    CASE N(op) = 0 -> op_5XY0(c, X(op), Y(op))
      [] N(op) = 2 -> op_5XY2(c, X(op), Y(op))
      [] N(op) = 3 -> op_5XY3(c, X(op), Y(op))
      [] OTHER -> Unknown(c)

dispatch_8(c, op) ==
    CASE N(op) = 0 -> op_8XY0(c, X(op), Y(op))
      [] N(op) = 1 -> op_8XY1(c, X(op), Y(op))
      [] N(op) = 2 -> op_8XY2(c, X(op), Y(op))
      [] N(op) = 3 -> op_8XY3(c, X(op), Y(op))
      [] N(op) = 4 -> op_8XY4(c, X(op), Y(op))
      [] N(op) = 5 -> op_8XY5(c, X(op), Y(op))
      [] N(op) = 6 -> op_8XY6(c, X(op), Y(op))
      [] N(op) = 7 -> op_8XY7(c, X(op), Y(op))
      [] N(op) = 14 -> op_8XYE(c, X(op), Y(op))
      [] OTHER -> Unknown(c)

dispatch_E(c, op) ==
    CASE NN(op) = 158 -> op_EX9E(c, X(op))
      [] NN(op) = 161 -> op_EXA1(c, X(op))
      [] OTHER -> Unknown(c)

dispatch_F(c, op, file) ==
    LET nn == NN(op)
        x == X(op)
    IN CASE nn = 0 -> op_F000(c, x)
         [] nn = 1 -> op_FX01(c, x)
         [] nn = 2 -> op_FX02(c, x)
         [] nn = 7 -> op_FX07(c, x)
         [] nn = 10 -> op_FX0A(c, x)
         [] nn = 21 -> op_FX15(c, x)
         [] nn = 24 -> op_FX18(c, x)
         [] nn = 30 -> op_FX1E(c, x)
         [] nn = 41 -> op_FX29(c, x)
         [] nn = 48 -> op_FX30(c, x)
         [] nn = 51 -> op_FX33(c, x)
         [] nn = 58 -> op_FX3A(c, x)
         [] nn = 85 -> op_FX55(c, x)
         [] nn = 101 -> op_FX65(c, x)
         [] nn = 117 -> op_FX75(c, x, file)
         [] nn = 133 -> op_FX85(c, x, file)
         [] OTHER -> Unknown(c)

dispatch(c, op, file, rnd) ==
    LET n0 == N0(op) IN
    CASE n0 = 0 -> dispatch_0(c, op)
      [] n0 = 1 -> op_1NNN(c, NNN(op))
      [] n0 = 2 -> op_2NNN(c, NNN(op))
      [] n0 = 3 -> op_3XNN(c, X(op), NN(op))
      [] n0 = 4 -> op_4XNN(c, X(op), NN(op))
      [] n0 = 5 -> dispatch_5(c, op)
      [] n0 = 6 -> op_6XNN(c, X(op), NN(op))
      [] n0 = 7 -> op_7XNN(c, X(op), NN(op))
      [] n0 = 8 -> dispatch_8(c, op)
      [] n0 = 9 -> op_9XY0(c, X(op), Y(op), N(op))
      [] n0 = 10 -> op_ANNN(c, NNN(op))
      [] n0 = 11 -> op_BNNN(c, X(op), NNN(op))
      [] n0 = 12 -> op_CXNN(c, X(op), NN(op), rnd)
      [] n0 = 13 -> op_DXYN(c, X(op), Y(op), N(op))
      [] n0 = 14 -> dispatch_E(c, op)
      [] n0 = 15 -> dispatch_F(c, op, file)

\* the two fetches of Chip8::step: op, and PC advanced by 2
fetch_op(c) == Word(MemRd(c, c.pc), MemRd(c, Wrap(c.pc + 1, 65536)))

\* fetch advancing PC over one byte only
fetch_one_byte(c) ==
    IF Overflows(c, c.pc + 1, 65536) THEN Panic(c, "overflow")
    ELSE [c EXCEPT !.pc = Wrap(c.pc + 1, 65536)]

fetch(c) ==
    IF Overflows(c, c.pc + 2, 65536) THEN Panic(c, "overflow")
    ELSE [c EXCEPT !.pc = Wrap(c.pc + 2, 65536)]

\* a call that panics never returns: the state is the one of the call's
\* entry, marked with the fault
Frozen(c, r) == IF r.fault # "none" THEN [c EXCEPT !.fault = r.fault] ELSE r

step(c, file, rnd) ==
    IF c.halted THEN Frozen(c, step_halted(c))
    ELSE Frozen(c, dispatch(fetch(c), fetch_op(c), file, rnd))

\* the flag file after the call
step_file(c, file) ==
    LET op == fetch_op(c) IN
    IF c.halted \/ fetch(c).fault # "none" \/ N0(op) # 15 THEN file
    ELSE IF NN(op) = 117 THEN file_FX75(c, X(op), file)
    ELSE IF NN(op) = 133 THEN file_FX85(c, X(op), file)
    ELSE file

(***************************************************************************)
(* Chip8::jittable                                                         *)
(***************************************************************************)
(***************************************************************************)
(* Chip8::check_mem_access, and the data-memory accesses of Chip8::step    *)
(* that it announces.  An access is <<address, is_read>>.                  *)
(***************************************************************************)
Accesses(fault, list) == [fault |-> fault, list |-> list]

\* for i in 0..count { ret.push((self.i + i, is_read)) }, a u16 addition
pushes(c, count, is_read) ==
    IF count > 0 /\ Overflows(c, c.i + count - 1, 65536)
    THEN Accesses("overflow", << >>)
    ELSE Accesses("none",
                  [k \in 1 .. count |-> <<Wrap(c.i + k - 1, 65536), is_read>>])

\* for i in 0..=(y - x) { .. }, a u16 subtraction
pushes_range(c, x, y, is_read) ==
    IF Overflows(c, y - x, 65536) THEN Accesses("overflow", << >>)
    ELSE pushes(c, Wrap(y - x, 65536) + 1, is_read)

check_mem_access(c) ==
    IF c.halted THEN Accesses("none", << >>)
    ELSE IF c.pc + 1 >= MEM_SIZE THEN Accesses("index", << >>)
    ELSE LET op == OpAt(c, c.pc) IN
         CASE N0(op) = 5 /\ N(op) \in {2, 3} /\ c.system = "XOCHIP" ->
                pushes_range(c, X(op), Y(op), N(op) = 3)
           [] N0(op) = 13 ->
                pushes(c, (IF N(op) = 0 THEN 32 ELSE N(op)) * count_ones(c.plane),
                       TRUE)
           [] N0(op) = 15 /\ NN(op) = 2 /\ X(op) = 0 -> pushes(c, 16, TRUE)
           [] N0(op) = 15 /\ NN(op) = 51 -> pushes(c, 3, FALSE)
           [] N0(op) = 15 /\ NN(op) = 85 -> pushes(c, X(op) + 1, FALSE)
           [] N0(op) = 15 /\ NN(op) = 101 -> pushes(c, X(op) + 1, TRUE)
           [] OTHER -> Accesses("none", << >>)

\* count accesses self.mem[base], self.mem[base + 1], ..: the index that
\* leaves the memory panics and ends them
indexed(base, count, is_read) ==
    [k \in 1 .. min(count, IF base < MEM_SIZE THEN MEM_SIZE - base ELSE 0) |->
       <<base + k - 1, is_read>>]

reads_of(addrs) == [k \in DOMAIN addrs |-> <<addrs[k], TRUE>>]

\* the self.mem[..] expressions that step() evaluates in state c after the
\* fetch, in the order of evaluation
step_accesses(c) ==
    IF c.halted \/ fetch(c).fault # "none" THEN << >>
    ELSE LET op == fetch_op(c)
             x == X(op)
             y == Y(op)
         IN
         CASE N0(op) = 5 /\ N(op) \in {2, 3} /\ c.system = "XOCHIP" ->
                indexed(c.i, IF y >= x THEN y - x + 1 ELSE 0, N(op) = 3)
           [] N0(op) = 13 ->
                reads_of(drawn(c, x, y, IF N(op) = 0 THEN 2 ELSE 1,
                               IF N(op) = 0 THEN 32 ELSE N(op),
                               c.quirk_clipping).reads)
           [] N0(op) = 15 /\ NN(op) = 2 /\ x = 0 /\ c.system = "XOCHIP" ->
                indexed(c.i, 16, TRUE)
           [] N0(op) = 15 /\ NN(op) = 51 -> indexed(c.i, 3, FALSE)
           [] N0(op) = 15 /\ NN(op) = 85 -> indexed(c.i, x + 1, FALSE)
           [] N0(op) = 15 /\ NN(op) = 101 -> indexed(c.i, x + 1, TRUE)
           [] OTHER -> << >>

\* TryJit with the sentinel never looked at
TryJit_unmarked(c, pc) == TRUE

TryJit(c, pc) == Rd(c.try_jit, pc, TRUE)

jittable_op(op) ==
    CASE N0(op) = 0 -> NNN(op) \in {224, 238, 254, 255}
      [] N0(op) = 5 -> N(op) = 0
      [] N0(op) = 15 -> NN(op) \in {0, 7, 10, 21, 24, 30, 51, 85, 101}
      [] N0(op) \in (1 .. 4) \cup (6 .. 10) \cup (13 .. 14) -> TRUE
      [] OTHER -> FALSE

\* self.try_jit[pc as usize] is a bounds-checked index of 0x4000 entries
jit_index_fails(pc) == pc >= JIT_SIZE

jittable(c, pc) == TryJit(c, pc) /\ jittable_op(OpAt(c, pc))

(***************************************************************************)
(* Emitted host code.  A block is a sequence of host operations            *)
(*   [k |-> "ins",    op, pc]  the host instructions emitted for one guest *)
(*                             instruction op fetched at pc                *)
(*   [k |-> "jcc",    op, pc, v]  cmp ..; jcc >branch  for the skip op:    *)
(*                             v = 1 jumps when the skip condition holds,  *)
(*                             v = 0 when it does not                      *)
(*   [k |-> "add_r9", v]       add r9, v                                   *)
(*   [k |-> "exit",   v]       add r9, v ; jmp >end                        *)
(*   [k |-> "add_pc", v]       add WORD [rdi+pc_offs], v                   *)
(*   [k |-> "set_pc", v]       mov WORD [rdi+pc_offs], v                   *)
(*   [k |-> "label"]           branch:                                     *)
(* (unused fields are 0).  r9 is the cycle accumulator.                    *)
(***************************************************************************)
H(k, op, pc, v) == [k |-> k, op |-> op, pc |-> pc, v |-> v]

EXIT_BLOCK == 65535

Emit(code, ret, inf, fault) == [code |-> code, ret |-> ret, inf |-> inf, fault |-> fault]

is_skip_op(op) ==
    \/ N0(op) \in {3, 4}
    \/ N0(op) = 5 /\ N(op) = 0
    \/ N0(op) = 9 /\ N(op) = 0
    \/ N0(op) = 14 /\ NN(op) \in {158, 161}

\* the opcodes for which compile_ins reaches panic!("Can't compile instruction")
\* or panic!("Exit")
compile_panic(op) ==
    CASE N0(op) = 0 ->
           IF NNN(op) = 253 THEN "exit"
           ELSE IF NNN(op) \in (192 .. 224) \cup {238, 251, 252, 254, 255} THEN "none"
           ELSE "compile"
      [] N0(op) = 5 -> IF N(op) \in {0, 2, 3} THEN "none" ELSE "compile"
      [] N0(op) = 8 -> IF N(op) \in (0 .. 7) \cup {14} THEN "none" ELSE "compile"
      [] N0(op) = 9 -> IF N(op) = 0 THEN "none" ELSE "compile"
      [] N0(op) = 14 -> IF NN(op) \in {158, 161} THEN "none" ELSE "compile"
      [] N0(op) = 15 ->
           IF NN(op) \in {0, 1, 7, 10, 21, 24, 30, 41, 48, 51, 58, 85, 101, 117, 133}
           THEN "none" ELSE "compile"
      [] OTHER -> "none"

\* the opcodes after which compile_ins returns 0xffff
ends_block(op) ==
    \/ N0(op) = 0 /\ NNN(op) = 238
    \/ N0(op) \in {1, 2}
    \/ N0(op) = 15 /\ NN(op) = 10

compile_branch_non_inline ==
    Emit(<<H("add_pc", 0, 0, 2), H("label", 0, 0, 0), H("add_pc", 0, 0, 2)>>,
         EXIT_BLOCK, FALSE, "none")

RECURSIVE compile_ins(_, _, _, _)
RECURSIVE compile_branch_inline(_, _, _, _)

\* inline_branch without the cycle of the inlined instruction
inline_branch_uncounted(pc, r) ==
    Emit(r.code \o <<H("label", 0, 0, 0)>>,
         IF r.ret = EXIT_BLOCK THEN pc + 2 ELSE r.ret,
         r.inf, r.fault)

\* the inlined instruction r between the cycle count and the branch label
inline_branch(pc, r) ==
    Emit(<<H("add_r9", 0, 0, 1)>> \o r.code \o <<H("label", 0, 0, 0)>>,
         IF r.ret = EXIT_BLOCK THEN pc + 2 ELSE r.ret,
         r.inf, r.fault)

compile_branch_inline(c, pc, cyc, inf) ==
    inline_branch(pc, compile_ins(c, pc, cyc, inf))

\* the conditional jump in front of the inlined branch b
skip_inline(op, orig_pc, b) ==
    Emit(<<H("jcc", op, orig_pc, 1)>> \o b.code, b.ret, b.inf, b.fault)

compile_ins(c, orig_pc, cyc, inf) ==
    LET op == OpAt(c, orig_pc)
        pc == orig_pc + 2
    IN
    IF compile_panic(op) # "none" THEN Emit(<< >>, pc, inf, compile_panic(op))
    ELSE IF N0(op) = 5 /\ N(op) \in {2, 3} /\ Y(op) < X(op) /\ c.overflow_checks
    THEN Emit(<< >>, pc, inf, "overflow")
    ELSE IF is_skip_op(op)
    THEN IF jit_index_fails(pc) THEN Emit(<< >>, pc, inf, "index")
         ELSE IF jittable(c, pc)
         THEN skip_inline(op, orig_pc, compile_branch_inline(c, pc, cyc, inf))
         ELSE Emit(<<H("jcc", op, orig_pc, 0)>> \o compile_branch_non_inline.code,
                   EXIT_BLOCK, inf, "none")
    ELSE IF ends_block(op)
    THEN Emit(<<H("ins", op, orig_pc, 0), H("exit", 0, 0, cyc)>>, EXIT_BLOCK,
              inf \/ (N0(op) = 1 /\ NNN(op) = orig_pc), "none")
    ELSE IF op = 61440
    THEN Emit(<<H("ins", op, orig_pc, 0)>>, pc + 2, inf, "none")
    ELSE Emit(<<H("ins", op, orig_pc, 0)>>, pc, inf, "none")

(***************************************************************************)
(* What the emitted host instructions do.  nd holds the values the         *)
(* execution cannot determine: nd.rnd the random byte, nd.word / nd.bit    *)
(* the content of memory read outside the indexed object.                  *)
(***************************************************************************)
Ub(c) == Panic(c, "ub")

\* sub BYTE [sp], 1 ; movzx rax, [sp] ; mov ax, [stack + rax*2] ; mov [pc], ax
jit_00EE(c, nd) ==
    LET sp == (c.sp - 1) % 256 IN
    IF sp < 16 THEN [c EXCEPT !.sp = sp, !.pc = c.stack[sp]]
    ELSE Ub([c EXCEPT !.sp = sp, !.pc = nd.word])

\* movzx rax, [sp] ; mov [stack + rax*2], pc ; add BYTE [sp], 1 ; mov [pc], nnn
jit_2NNN(c, nnn, pc) ==
    IF c.sp < 16
    THEN [c EXCEPT !.stack[c.sp] = pc, !.sp = (c.sp + 1) % 256, !.pc = nnn]
    ELSE Ub([c EXCEPT !.sp = (c.sp + 1) % 256, !.pc = nnn])

\* the next_reg loops: count registers from regs[reg] to mem[I..], unchecked
RECURSIVE jit_save(_, _, _, _)
jit_save(c, reg, count, addr) ==
    IF count = 0 \/ c.fault # "none" THEN c
    ELSE IF reg > 15 \/ addr >= MEM_SIZE THEN Ub(c)
    ELSE jit_save([c EXCEPT !.mem = Wr(c.mem, addr, c.regs[reg], 0)],
                  reg + 1, count - 1, addr + 1)

RECURSIVE jit_load(_, _, _, _)
jit_load(c, reg, count, addr) ==
    IF count = 0 \/ c.fault # "none" THEN c
    ELSE IF reg > 15 \/ addr >= MEM_SIZE THEN Ub(c)
    ELSE jit_load([c EXCEPT !.regs[reg] = MemRd(c, addr)],
                  reg + 1, count - 1, addr + 1)

\* add WORD [i], count
jit_add_i(c, count) ==
    IF c.fault # "none" THEN c ELSE [c EXCEPT !.i = (c.i + count) % 65536]

\* mov al, (y-x + 1) as i8 ; dec al ; jnz : 0 counts as 256
loop_count(v) == IF v % 256 = 0 THEN 256 ELSE v % 256

jit_5XY2(c, x, y) ==
    jit_add_i(jit_save(c, x, loop_count(y - x + 1), c.i), y - x + 1)

jit_5XY3(c, x, y) ==
    jit_add_i(jit_load(c, x, loop_count(y - x + 1), c.i), y - x + 1)

jit_FX55(c, x) == jit_add_i(jit_save(c, 0, x + 1, c.i), x + 1)

jit_FX65(c, x) == jit_add_i(jit_load(c, 0, x + 1, c.i), x + 1)

jit_8XY1(c, x, y) == [c EXCEPT !.regs[x] = BitOr(c.regs[x], c.regs[y])]

jit_8XY2(c, x, y) == [c EXCEPT !.regs[x] = BitAnd(c.regs[x], c.regs[y])]

jit_8XY3(c, x, y) == [c EXCEPT !.regs[x] = BitXor(c.regs[x], c.regs[y])]

jit_8XY4(c, x, y) ==
    set_result_flag(c, x, (c.regs[x] + c.regs[y]) % 256,
                    IF c.regs[x] + c.regs[y] > 255 THEN 1 ELSE 0)

jit_8XY5(c, x, y) ==
    set_result_flag(c, x, (c.regs[x] - c.regs[y]) % 256,
                    IF c.regs[x] < c.regs[y] THEN 0 ELSE 1)

jit_8XY6(c, x, y) ==
    set_result_flag(c, x, c.regs[y] \div 2, c.regs[y] % 2)

jit_8XY7(c, x, y) ==
    set_result_flag(c, x, (c.regs[y] - c.regs[x]) % 256,
                    IF c.regs[y] < c.regs[x] THEN 0 ELSE 1)

jit_8XYE(c, x, y) ==
    set_result_flag(c, x, (c.regs[y] * 2) % 256, c.regs[y] \div 128)

\* jit_ANNN with the operand fixed when the block is compiled
jit_ANNN_baked(c, op, pc) == [c EXCEPT !.i = NNN(op)]

\* mov ah, [mem + orig_pc] ; mov al, [mem + orig_pc + 1] ; and ax, 0xfff
jit_ANNN(c, op, pc) == [c EXCEPT !.i = OpAt(c, pc) % 4096]

\* mov ah, [mem + pc] ; mov al, [mem + pc + 1]   (pc = orig_pc + 2)
jit_F000(c, pc) == [c EXCEPT !.i = OpAt(c, pc + 2)]

\* extern "sysv64" fn xo_rand
xo_rand(c, x, nn, nd) == [c EXCEPT !.regs[x] = BitAnd(nd.rnd, nn)]

\* jit_FX0A leaving the program counter behind the instruction
jit_FX0A_advancing(c, x, pc) ==
    [c EXCEPT !.halted = TRUE, !.halt_reg = x,
              !.halt_wait_for_release = FALSE, !.pc = pc + 2]

jit_FX0A(c, x, pc) ==
    [c EXCEPT !.halted = TRUE, !.halt_reg = x,
              !.halt_wait_for_release = FALSE, !.pc = pc]

jit_FX1E(c, x) == [c EXCEPT !.i = (c.i + c.regs[x]) % 65536]

\* div bl (0x64, 0x0a) ; mov [rsi], al ; mov [rsi+1], al ; mov [rsi+2], ah
jit_FX33(c, x) ==
    IF c.i + 2 >= MEM_SIZE THEN Ub(c)
    ELSE [c EXCEPT !.mem =
            Wr(Wr(Wr(c.mem, c.i, c.regs[x] \div 100, 0),
                  c.i + 1, (c.regs[x] % 100) \div 10, 0),
               c.i + 2, (c.regs[x] % 100) % 10, 0)]

jit_ins_0(c, op, nd) ==
    CASE NNN(op) = 224 -> xo_clear(c)
      [] NNN(op) = 238 -> jit_00EE(c, nd)
      [] NNN(op) = 254 -> [c EXCEPT !.hires = FALSE]
      [] NNN(op) = 255 -> [c EXCEPT !.hires = TRUE]
      [] OTHER -> c

jit_ins_5(c, op) ==
    IF N(op) = 2 THEN jit_5XY2(c, X(op), Y(op)) ELSE jit_5XY3(c, X(op), Y(op))

jit_ins_8(c, op) ==
    CASE N(op) = 0 -> [c EXCEPT !.regs[X(op)] = c.regs[Y(op)]]
      [] N(op) = 1 -> jit_8XY1(c, X(op), Y(op))
      [] N(op) = 2 -> jit_8XY2(c, X(op), Y(op))
      [] N(op) = 3 -> jit_8XY3(c, X(op), Y(op))
      [] N(op) = 4 -> jit_8XY4(c, X(op), Y(op))
      [] N(op) = 5 -> jit_8XY5(c, X(op), Y(op))
      [] N(op) = 6 -> jit_8XY6(c, X(op), Y(op))
      [] N(op) = 7 -> jit_8XY7(c, X(op), Y(op))
      [] N(op) = 14 -> jit_8XYE(c, X(op), Y(op))

jit_ins_F(c, op, pc) ==
    CASE NN(op) = 0 -> IF X(op) = 0 THEN jit_F000(c, pc) ELSE c
      [] NN(op) = 7 -> [c EXCEPT !.regs[X(op)] = c.delay]
      [] NN(op) = 10 -> jit_FX0A(c, X(op), pc)
      [] NN(op) = 21 -> [c EXCEPT !.delay = c.regs[X(op)]]
      [] NN(op) = 24 -> [c EXCEPT !.sound = c.regs[X(op)]]
      [] NN(op) = 30 -> jit_FX1E(c, X(op))
      [] NN(op) = 51 -> jit_FX33(c, X(op))
      [] NN(op) = 85 -> jit_FX55(c, X(op))
      [] NN(op) = 101 -> jit_FX65(c, X(op))
      [] OTHER -> c

\* the host instructions of one "ins" operation
jit_ins(c, op, pc, nd) ==
    CASE N0(op) = 0 -> jit_ins_0(c, op, nd)
      [] N0(op) = 1 -> [c EXCEPT !.pc = NNN(op)]
      [] N0(op) = 2 -> jit_2NNN(c, NNN(op), pc + 2)
      [] N0(op) = 5 -> jit_ins_5(c, op)
      [] N0(op) = 6 -> [c EXCEPT !.regs[X(op)] = NN(op)]
      [] N0(op) = 7 -> [c EXCEPT !.regs[X(op)] = (c.regs[X(op)] + NN(op)) % 256]
      [] N0(op) = 8 -> jit_ins_8(c, op)
      [] N0(op) = 10 -> jit_ANNN(c, op, pc)
      [] N0(op) = 12 -> xo_rand(c, X(op), NN(op), nd)
      [] N0(op) = 13 -> xo_draw(c, X(op), Y(op), IF N(op) = 0 THEN 2 ELSE 1,
                                IF N(op) = 0 THEN 32 ELSE N(op))
      [] N0(op) = 15 -> jit_ins_F(c, op, pc)
      [] OTHER -> c

\* movzx rsi, [regs + x] ; cmp BYTE [rdi + keys_held_offs + rsi], 0
jit_key(c, x, nd) == IF c.regs[x] < 16 THEN c.keys_held[c.regs[x]] ELSE nd.bit

jit_key_fault(c, op) == N0(op) = 14 /\ c.regs[X(op)] > 15

\* the guest skip condition as the emitted cmp computes it
jit_skip_cond(c, op, nd) ==
    CASE N0(op) = 3 -> c.regs[X(op)] = NN(op)
      [] N0(op) = 4 -> c.regs[X(op)] # NN(op)
      [] N0(op) = 5 -> c.regs[X(op)] = c.regs[Y(op)]
      [] N0(op) = 9 -> c.regs[X(op)] # c.regs[Y(op)]
      [] N0(op) = 14 -> IF NN(op) = 158 THEN jit_key(c, X(op), nd)
                        ELSE ~jit_key(c, X(op), nd)

\* jcc >branch : is the jump taken
jcc_taken(c, h, nd) == jit_skip_cond(c, h.op, nd) = (h.v = 1)

\* >branch : the next definition of the label after position ip
RECURSIVE next_label(_, _)
next_label(code, ip) ==
    IF ip > Len(code) THEN ip
    ELSE IF code[ip].k = "label" THEN ip
    ELSE next_label(code, ip + 1)

\* Running a block from host operation ip.  The result is [c, r9, ops]:
\* the state, the value returned in rax, and the guest opcodes (as compiled)
\* whose host code was executed, in order.
RECURSIVE exec(_, _, _, _, _, _)
exec(c, code, ip, r9, ops, nd) ==
    IF c.fault # "none" \/ ip > Len(code) THEN [c |-> c, r9 |-> r9, ops |-> ops]
    ELSE LET h == code[ip] IN
      CASE h.k = "ins" ->
             exec(jit_ins(c, h.op, h.pc, nd), code, ip + 1, r9, Append(ops, h.op), nd)
        [] h.k = "jcc" ->
             IF jit_key_fault(c, h.op)
             THEN exec(Ub(c), code, ip + 1, r9, Append(ops, h.op), nd)
             ELSE IF jcc_taken(c, h, nd)
             THEN exec(c, code, next_label(code, ip + 1), r9, Append(ops, h.op), nd)
             ELSE exec(c, code, ip + 1, r9, Append(ops, h.op), nd)
        [] h.k = "add_r9" -> exec(c, code, ip + 1, r9 + h.v, ops, nd)
        [] h.k = "exit" -> [c |-> c, r9 |-> r9 + h.v, ops |-> ops]
        [] h.k = "add_pc" ->
             exec([c EXCEPT !.pc = (c.pc + h.v) % 65536], code, ip + 1, r9, ops, nd)
        [] h.k = "set_pc" -> exec([c EXCEPT !.pc = h.v], code, ip + 1, r9, ops, nd)
        [] h.k = "label" -> exec(c, code, ip + 1, r9, ops, nd)

(***************************************************************************)
(* Chip8::run_block                                                        *)
(***************************************************************************)
INF_LOOP_CYC == 1000000

\* loop { jit_cyc += 1; ret_pc = compile_ins(ret_pc); ... }
RECURSIVE compile_loop(_, _, _, _, _)

\* after compile_ins returned r for instruction number jit_cyc of the block
loop_next(c, jit_cyc, code, r) ==
    IF r.fault # "none"
    THEN [code |-> code, ret |-> r.ret, inf |-> r.inf, cyc |-> jit_cyc,
          fault |-> r.fault]
    ELSE IF r.ret = EXIT_BLOCK
    THEN [code |-> code \o r.code, ret |-> r.ret, inf |-> r.inf,
          cyc |-> jit_cyc, fault |-> "none"]
    ELSE IF jit_index_fails(r.ret)
    THEN [code |-> code \o r.code, ret |-> r.ret, inf |-> r.inf,
          cyc |-> jit_cyc, fault |-> "index"]
    ELSE IF ~jittable(c, r.ret)
    THEN [code |-> code \o r.code, ret |-> r.ret, inf |-> r.inf,
          cyc |-> jit_cyc, fault |-> "none"]
    ELSE compile_loop(c, r.ret, jit_cyc, r.inf, code \o r.code)

compile_loop(c, ret_pc, jit_cyc, inf, code) ==
    loop_next(c, jit_cyc + 1, code, compile_ins(c, ret_pc, jit_cyc + 1, inf))

\* the store of the next PC when the loop l ended on a PC that is not
\* jittable, and the epilogue with the block's cycle count
epilogue(l, cyc) ==
    [code |-> l.code
              \o (IF l.ret # EXIT_BLOCK THEN <<H("set_pc", 0, 0, l.ret)>> ELSE << >>)
              \o <<H("add_r9", 0, 0, cyc)>>,
     inf |-> l.inf, cyc |-> cyc, fault |-> l.fault]

block_cyc(l) == epilogue(l, IF l.inf THEN INF_LOOP_CYC ELSE l.cyc)

\* the whole block
compile_block(c) == block_cyc(compile_loop(c, c.pc, 0, FALSE, << >>))

Ret(c, cyc, ops, path) == [c |-> c, cyc |-> cyc, ops |-> ops, path |-> path]

\* a panic ends the process at the call's entry state; after "ub" the host
\* code has run on
Ended(c, r) ==
    IF r.fault \notin {"none", "ub"} THEN [c EXCEPT !.fault = r.fault] ELSE r

\* the opcode a step() call executes (none while halted)
step_ops(c) == IF c.halted THEN << >> ELSE <<fetch_op(c)>>

\* the cached block has run and returned e
ran_cached(c, e) == Ret(Ended(c, e.c), e.r9, e.ops, "hit")

\* run_cached translating the block anew from the memory as it is now
run_cached_fresh(c, nd) ==
    ran_cached(c, exec(c, compile_block(c).code, 1, 0, << >>, nd))

run_cached(c, nd) == ran_cached(c, exec(c, c.mems[c.pc], 1, 0, << >>, nd))

\* the new block b has run and returned e: it is stored in mems
ran_compiled(c, b, e) ==
    IF e.c.fault \notin {"none", "ub"}
    THEN Ret(Ended(c, e.c), e.r9, e.ops, "compile")
    ELSE Ret([e.c EXCEPT !.mems = Wr(e.c.mems, c.pc, b.code, << >>)],
             e.r9, e.ops, "compile")

\* the block b has been compiled: it is run
run_new(c, b, nd) ==
    IF b.fault # "none" THEN Ret(Panic(c, b.fault), 0, << >>, "compile")
    ELSE ran_compiled(c, b,
           exec([c EXCEPT !.jit_cyc = b.cyc, !.inf_loop = b.inf], b.code, 1, 0,
                << >>, nd))

run_compiled(c, nd) == run_new(c, compile_block(c), nd)

\* run_block looking at the opcode again where the sentinel is set
run_block_retrying(c, file, nd) ==
    IF c.halted THEN Ret(step(c, file, nd.rnd), 1, step_ops(c), "halted")
    ELSE IF jit_index_fails(c.pc) THEN Ret(Panic(c, "index"), 0, << >>, "index")
    ELSE IF ~TryJit(c, c.pc) /\ ~jittable_op(OpAt(c, c.pc))
    THEN Ret(step(c, file, nd.rnd), 1, step_ops(c), "no_jit")
    ELSE IF c.pc \in DOMAIN c.mems THEN run_cached(c, nd)
    ELSE IF ~jittable_op(OpAt(c, c.pc))
    THEN LET c1 == [c EXCEPT !.try_jit = Wr(c.try_jit, c.pc, FALSE, TRUE)] IN
         Ret(Frozen(c, step(c1, file, nd.rnd)), 1, step_ops(c), "mark")
    ELSE run_compiled(c, nd)

run_block(c, file, nd) ==
    IF c.halted THEN Ret(step(c, file, nd.rnd), 1, step_ops(c), "halted")
    ELSE IF jit_index_fails(c.pc) THEN Ret(Panic(c, "index"), 0, << >>, "index")
    ELSE IF ~TryJit(c, c.pc) THEN Ret(step(c, file, nd.rnd), 1, step_ops(c), "no_jit")
    ELSE IF c.pc \in DOMAIN c.mems THEN run_cached(c, nd)
    ELSE IF ~jittable(c, c.pc)
    THEN LET c1 == [c EXCEPT !.try_jit = Wr(c.try_jit, c.pc, FALSE, TRUE)] IN
         Ret(Frozen(c, step(c1, file, nd.rnd)), 1, step_ops(c), "mark")
    ELSE run_compiled(c, nd)

run_block_file(c, file) ==
    IF c.halted \/ jit_index_fails(c.pc) THEN file
    ELSE IF ~TryJit(c, c.pc) \/ (c.pc \notin DOMAIN c.mems /\ ~jittable(c, c.pc))
    THEN step_file(c, file)
    ELSE file

(***************************************************************************)
(* Programs.  A ROM is a sequence of 16-bit words, loaded big-endian.      *)
(***************************************************************************)
Bytes(words) ==
    [k \in 1 .. 2 * Len(words) |->
       IF k % 2 = 1 THEN words[(k + 1) \div 2] \div 256
       ELSE words[k \div 2] % 256]

\* 60FF 6102 8014 : the adder
RomAdd == <<24831, 24834, 32788>>
\* 6001 3001 F029 6105 : a skip in front of an opcode that is not translated
RomSkipFont == <<24577, 12289, 61481, 24837>>
\* 2204 1202 00EE : call, return, self-jump
RomCall == <<8708, 4610, 238>>
\* 00EE : return on an empty stack
RomRet == <<238>>
\* 2200 : a call of itself
RomRecurse == <<8704>>
\* F30A 6101 1204 : wait for a key
RomKey == <<62218, 24833, 4612>>
\* 3000 F000 0234 6101 1208 : skip in front of the long opcode
RomSkipLong == <<12288, 61440, 564, 24833, 4616>>
\* 6005 3005 6101 4005 5010 9010 6202 E09E E0A1 F000 1234 121A
RomSkips == <<24581, 12293, 24833, 16389, 20496, 36880, 25090, 57502, 57505,
              61440, 4660, 4634>>
\* A300 60AB 61CD F155 A300 F165 1200
RomSaveLoad == <<41728, 24747, 25037, 61781, 41728, 61797, 4608>>
\* 1208 0 0 0 A300 1210 0 0 A208 60A4 6156 F155 1208 : rewrite an ANNN operand
RomSmcA == <<4616, 0, 0, 0, 41728, 4624, 0, 0, 41480, 24740, 24918, 61781, 4616>>
\* 1208 0 0 0 F000 1234 1210 0 A20A 6056 6178 F155 1208 : rewrite an F000 operand
RomSmcLong == <<4616, 0, 0, 0, 61440, 4660, 4624, 0, 41482, 24662, 24952, 61781, 4616>>
\* 6180 6201 812E 8126 : shifts
RomShift == <<24960, 25089, 33070, 33062>>
\* 6F01 6105 6203 8121 8122 8123 : logic
RomLogic == <<28417, 24837, 25091, 33057, 33058, 33059>>
\* A050 D015 D015 : the glyph 0 drawn twice
RomDraw == <<41040, 53269, 53269>>
\* 00FF A050 D015 D015 : the same in hi-res
RomDrawHi == <<255, 41040, 53269, 53269>>
\* 6001 3001 9011 6105 : a skipped word that is no opcode
RomSkipBad == <<24577, 12289, 36881, 24837>>
\* 6001 3001 3002 6105 6206 : a skip that skips a skip
RomSkipSkip == <<24577, 12289, 12290, 24837, 25094>>
\* 1200 : a jump to itself
RomSelf == <<4608>>
\* 60FF 8F04 6F80 8F05 6F80 8FF7 : arithmetic into VF
RomFlag == <<24831, 36612, 28544, 36613, 28544, 36855>>

\* A300 60AB 61CD 1208 F155 1200 : a save in a block of its own
RomSaveJ == <<41728, 24747, 25037, 4616, 61781, 4608>>

\* A050 1204 F265 1200 : a load in a block of its own
RomLoadJ == <<41040, 4612, 62053, 4608>>

Roms == <<RomAdd, RomSkipFont, RomCall, RomRet, RomRecurse, RomKey, RomSkipLong,
          RomSkips, RomSaveLoad, RomSmcA, RomSmcLong, RomShift, RomLogic,
          RomDraw, RomDrawHi, RomSkipBad, RomSkipSkip, RomSelf, RomFlag,
          RomSaveJ, RomLoadJ>>

Systems == {"CHIP8", "LSCHIP", "MSCHIP", "XOCHIP"}

QuirkNames == {"quirk_vf_reset", "quirk_memory", "quirk_disp_wait",
               "quirk_clipping", "quirk_shifting", "quirk_jumping",
               "quirk_disp_wait_lores", "quirk_scroll_full_lores",
               "quirk_16_colors"}

\* a quirk checkbox of the settings window
toggle_quirk(c, q) ==
    CASE q = "quirk_vf_reset" -> [c EXCEPT !.quirk_vf_reset = ~@]
      [] q = "quirk_memory" -> [c EXCEPT !.quirk_memory = ~@]
      [] q = "quirk_disp_wait" -> [c EXCEPT !.quirk_disp_wait = ~@]
      [] q = "quirk_clipping" -> [c EXCEPT !.quirk_clipping = ~@]
      [] q = "quirk_shifting" -> [c EXCEPT !.quirk_shifting = ~@]
      [] q = "quirk_jumping" -> [c EXCEPT !.quirk_jumping = ~@]
      [] q = "quirk_disp_wait_lores" -> [c EXCEPT !.quirk_disp_wait_lores = ~@]
      [] q = "quirk_scroll_full_lores" -> [c EXCEPT !.quirk_scroll_full_lores = ~@]
      [] q = "quirk_16_colors" -> [c EXCEPT !.quirk_16_colors = ~@]
      [] OTHER -> c

\* the emulator as main() starts it, after the settings window has chosen the
\* system and flipped at most one quirk away from the preset
Boot(rom, system, flip, checks) ==
    toggle_quirk(set_system(load_rom(new(checks), Bytes(rom)), system), flip)

(***************************************************************************)
(* The state machine.                                                      *)
(***************************************************************************)
MaxCalls == 10

KeySets == {{}, {3, 5}}

NdVals == {[rnd |-> 165, word |-> 514, bit |-> TRUE],
           [rnd |-> 255, word |-> 0, bit |-> FALSE]}

QuirkFlips == {"none", "quirk_vf_reset", "quirk_memory", "quirk_shifting",
               "quirk_clipping"}

\* last describes the latest call: which one, its return value, the guest
\* opcodes it executed, which path run_block took, the flag file it was
\* given, the call before it, and the number of calls; frames lists the
\* calls that step() has made and not yet returned from since the latest
\* run_block(), each with its address and the SP it found, and matched is the
\* frame that the return executed by the latest call belongs to
NoFrame == [a |-> -1, sp |-> -1]

\* drv is the state of main() around the core; it stays NoDriver where the
\* calls are made without the event loop
NoDriver == [ticks_left |-> 0]

NoCall == [call |-> "none", cyc |-> 0, ops |-> << >>, path |-> "none",
           file |-> NoFile, before |-> "none", calls |-> 0,
           frames |-> << >>, matched |-> NoFrame]

InitWith(roms, flips, builds) ==
    /\ \E k \in 1 .. Len(roms) : \E system \in Systems : \E flip \in flips :
         \E checks \in builds :
           ch8 = Boot(roms[k], system, flip, checks)
    /\ flags_file = NoFile
    /\ prev = ch8
    /\ prev2 = ch8
    /\ last = NoCall
    /\ drv = NoDriver

\* the programs on which interpreted and translated calls are mixed
RomsMixed == <<RomAdd, RomSkipFont, RomCall, RomRet, RomRecurse, RomKey, RomSelf>>

Init == InitWith(RomsMixed, {"none"}, BOOLEAN)

InitAll == InitWith(Roms, QuirkFlips, BOOLEAN)

\* main(): chip8.keys_held = keyboard.keys_held, at the start of the
\* event-loop iteration that makes the call
set_keys(c, ks) == [c EXCEPT !.keys_held = [k \in 0 .. 15 |-> k \in ks]]

\* what the call step() made in state c0 and ended in c1 was: a 2NNN, a 00EE
\* or neither
stepped(c0, c1) ==
    IF c0.halted \/ c1.fault # "none" THEN "other"
    ELSE IF N0(fetch_op(c0)) = 2 THEN "call"
    ELSE IF fetch_op(c0) = 238 THEN "return"
    ELSE "other"

frames_after(call, c0, c1) ==
    IF call # "step" THEN << >>
    ELSE IF stepped(c0, c1) = "call"
    THEN Append(last.frames, [a |-> c0.pc, sp |-> c0.sp])
    ELSE IF stepped(c0, c1) = "return" /\ last.frames # << >>
    THEN SubSeq(last.frames, 1, Len(last.frames) - 1)
    ELSE last.frames

matched_by(call, c0, c1) ==
    IF call = "step" /\ stepped(c0, c1) = "return" /\ last.frames # << >>
    THEN last.frames[Len(last.frames)]
    ELSE NoFrame

\* prev is the state the latest call started from, prev2 the state the call
\* before it started from.  The call was made in state c0 and returned r.
Returned(call, c0, r, file) ==
    /\ ch8' = r.c
    /\ flags_file' = file
    /\ prev' = c0
    /\ prev2' = prev
    /\ last' = [call |-> call, cyc |-> r.cyc, ops |-> r.ops, path |-> r.path,
                file |-> flags_file, before |-> last.call,
                calls |-> last.calls + 1,
                frames |-> frames_after(call, c0, r.c),
                matched |-> matched_by(call, c0, r.c)]
    /\ drv' = drv

step_call(c0, rnd) ==
    Returned("step", c0, Ret(step(c0, flags_file, rnd), 1, step_ops(c0), "step"),
             step_file(c0, flags_file))

run_block_call(c0, nd) ==
    Returned("run_block", c0, run_block(c0, flags_file, nd),
             run_block_file(c0, flags_file))

StepWith(keysets) ==
    /\ ch8.fault = "none"
    /\ last.calls < MaxCalls
    /\ \E ks \in keysets : \E nd \in NdVals : step_call(set_keys(ch8, ks), nd.rnd)

RunBlockWith(keysets) ==
    /\ ch8.fault = "none"
    /\ last.calls < MaxCalls
    /\ \E ks \in keysets : \E nd \in NdVals : run_block_call(set_keys(ch8, ks), nd)

Step == StepWith(KeySets)

RunBlock == RunBlockWith(KeySets)

\* the same calls with no key touched
StepNoKeys == StepWith({{}})

RunBlockNoKeys == RunBlockWith({{}})

Next == Step \/ RunBlock

\* any sequence of step() and run_block() calls
Spec == Init /\ [][Next]_vars

\* the program run by step() calls only
NextStep == Step

SpecStep == InitAll /\ [][NextStep]_vars

\* the program run by run_block() calls only
NextJit == RunBlock

SpecJit == InitAll /\ [][NextJit]_vars

(***************************************************************************)
(* Properties.  Each is stated over the latest call: prev is the state it  *)
(* started from, ch8 the state it left, last what it did.                  *)
(***************************************************************************)

(***************************************************************************)
(* Programs that draw                                                      *)
(***************************************************************************)
\* A050 D015 1206 6001 D015 120C D015 D015 :
\* a draw, then draws one cell to the right
RomDrawStep ==
    <<41040, 53269, 4614, 24577, 53269, 4620, 53269, 53269>>

\* F301 A050 D015 1208 6001 D015 120E D015 D015 :
\* the same on two planes
RomDrawPlanes ==
    <<62209, 41040, 53269, 4616, 24577, 53269, 4622, 53269, 53269>>

\* 00FF 6001 A050 D015 120A 00FE D115 1210 D115 D115 :
\* lo-res draws over hi-res pixels
RomDrawMix ==
    <<255, 24577, 41040, 53269, 4618, 254, 53525, 4624, 53525, 53525>>

\* 607E 611F A050 D015 120A 607F D015 1210 D015 D015 :
\* lo-res across the right and bottom edges
RomDrawEdge ==
    <<24702, 24863, 41040, 53269, 4618, 24703, 53269, 4624, 53269, 53269>>

\* 00FF 607D 613E A050 D015 120C 607E D015 1212 D015 D015 :
\* hi-res across the right and bottom edges
RomDrawEdgeHi ==
    <<255, 24701, 24894, 41040, 53269, 4620, 24702, 53269, 4626, 53269, 53269>>

\* A210 6078 611F D010 120A 6079 D010 1210 D010 D010 :
\* a 16x16 sprite, its rows the program's last words, across the edges
RomDrawBig ==
    <<41488, 24696, 24863, 53264, 4618, 24697, 53264, 4624, 53264, 53264>>

\* A212 00FF 6078 613F D010 120C 6079 D010 1212 D010 D010 :
\* the same in hi-res
RomDrawBigHi ==
    <<41490, 255, 24696, 24895, 53264, 4620, 24697, 53264, 4626, 53264, 53264>>

\* 00FF 6001 A214 D011 120A 00FE D111 1210 D111 D111 8000 :
\* one lo-res cell drawn over a single hi-res pixel at its right
RomDrawDot ==
    <<255, 24577, 41492, 53265, 4618, 254, 53521, 4624, 53521, 53521, 32768>>

RomsDraw == <<RomDraw, RomDrawHi, RomDrawStep, RomDrawPlanes, RomDrawMix, RomDrawEdge,
              RomDrawEdgeHi, RomDrawBig, RomDrawBigHi, RomDrawDot>>

InitDraw == InitWith(RomsDraw, {"none", "quirk_clipping"}, {TRUE})

\* drawing, interpreted and compiled in any interleaving
NextDraw == StepNoKeys \/ RunBlockNoKeys

SpecDraw == InitDraw /\ [][NextDraw]_vars

\* the architectural state: what a CHIP-8 program can observe
Arch(c) ==
    <<c.regs, c.i, c.pc, c.stack, c.sp, c.mem, c.vram, c.delay, c.sound,
      c.hires, c.plane, c.halted, c.wait_vblank>>

\* k consecutive step() calls
RECURSIVE StepN(_, _, _, _)
StepN(c, file, k, rnd) ==
    IF k = 0 \/ c.fault # "none" THEN c
    ELSE StepN(step(c, file, rnd), step_file(c, file), k - 1, rnd)

\* C1: a run_block() call that executed n guest instructions leaves the
\* architectural state that n step() calls leave from the same state, and it
\* aborts only where those step() calls abort.
C1_JitRefinesStep ==
    last.call = "run_block" =>
      IF ch8.fault = "none"
      THEN \E nd \in NdVals :
             LET s == StepN(prev, last.file, Len(last.ops), nd.rnd) IN
             s.fault = "none" /\ Arch(s) = Arch(ch8)
      ELSE \E k \in 1 .. MaxCalls : \E nd \in NdVals :
             StepN(prev, last.file, k, nd.rnd).fault # "none"

\* C2: SP stays within 0..16 and PC within 0..0xFFFF in every state reached
\* by step() and run_block() calls; a call at SP = 16 and a return at SP = 0
\* never leave SP outside that range.
C2_SpPcInRange ==
    /\ ch8.sp \in 0 .. 16
    /\ ch8.pc \in 0 .. 65535

\* the latest call was made while the core was halted
CalledHalted == last.call \in {"step", "run_block"} /\ prev.halted

\* C3: a step() or run_block() call made while halted that returns still
\* halted leaves PC, I, SP, the stack, memory and VRAM unchanged; a call that
\* clears halted advances PC by exactly 2.
C3_HaltedFrame ==
    CalledHalted =>
      IF ch8.halted
      THEN /\ ch8.pc = prev.pc
           /\ ch8.i = prev.i
           /\ ch8.sp = prev.sp
           /\ ch8.stack = prev.stack
           /\ ch8.mem = prev.mem
           /\ ch8.vram = prev.vram
      ELSE ch8.pc = prev.pc + 2

\* a run_block() call while halted latched a key and returned still halted
C3_Witness ==
    /\ last.call = "run_block"
    /\ prev.halted /\ ~prev.halt_wait_for_release
    /\ ch8.halted /\ ch8.halt_wait_for_release
    /\ ch8.regs # prev.regs

\* C4: while halted by FX0A, halted is cleared only by a call in the release
\* phase that sees the latched key not held; the release phase is entered
\* only by a call that saw a key held and stored the lowest held key index
\* into VX; a call in the press phase that sees no key held changes nothing;
\* FX0A itself starts the press phase.
C4_KeyWaitPhases ==
    /\ CalledHalted =>
         /\ ~ch8.halted =>
              /\ prev.halt_wait_for_release
              /\ ~prev.keys_held[prev.regs[prev.halt_reg]]
         /\ (~prev.halt_wait_for_release /\ ch8.halt_wait_for_release) =>
              /\ prev.keys_held[ch8.regs[prev.halt_reg]]
              /\ \A k \in 0 .. 15 :
                   prev.keys_held[k] => ch8.regs[prev.halt_reg] <= k
         /\ (~prev.halt_wait_for_release /\ \A k \in 0 .. 15 : ~prev.keys_held[k])
              => ch8 = prev
    /\ (last.call # "none" /\ ~prev.halted /\ ch8.halted) =>
         /\ ~ch8.halt_wait_for_release
         /\ last.ops[Len(last.ops)] % 256 = 10
         /\ ch8.halt_reg = X(last.ops[Len(last.ops)])

\* with keys 3 and 5 held, a step() latched key 3 into VX
C4_Witness ==
    /\ last.call = "step"
    /\ prev.halted /\ ~prev.halt_wait_for_release
    /\ prev.keys_held[3] /\ prev.keys_held[5]
    /\ ch8.halt_wait_for_release
    /\ ch8.regs[ch8.halt_reg] = 3

\* what a conditional skip opcode tests, from the state it is executed in
SkipTaken(c, op) ==
    CASE N0(op) = 3 -> c.regs[X(op)] = NN(op)
      [] N0(op) = 4 -> c.regs[X(op)] # NN(op)
      [] N0(op) = 5 -> c.regs[X(op)] = c.regs[Y(op)]
      [] N0(op) = 9 -> c.regs[X(op)] # c.regs[Y(op)]
      [] NN(op) = 158 -> c.keys_held[c.regs[X(op)]]
      [] OTHER -> ~c.keys_held[c.regs[X(op)]]

IsSkipOp(op) ==
    \/ N0(op) \in {3, 4}
    \/ N0(op) \in {5, 9} /\ N(op) = 0
    \/ N0(op) = 14 /\ NN(op) \in {158, 161}

\* the latest call was a step() that executed a conditional skip
SteppedSkip ==
    /\ last.call = "step" /\ ~prev.halted /\ ch8.fault = "none"
    /\ IsSkipOp(last.ops[1])

\* C5: after step() executes a conditional skip at address a, PC is a+2 when
\* the condition is false; when it is true PC is a+6 if the system is
\* XO-CHIP and the bytes at a+2, a+3 are F0 00, and a+4 otherwise.
C5_SkipTargets ==
    SteppedSkip =>
      LET a == prev.pc IN
      ch8.pc = IF ~SkipTaken(prev, last.ops[1]) THEN a + 2
               ELSE IF /\ prev.system = "XOCHIP"
                       /\ Rd(prev.mem, a + 2, 0) = 240
                       /\ Rd(prev.mem, a + 3, 0) = 0
               THEN a + 6
               ELSE a + 4

\* a key skip jumped over a four-byte F000 NNNN
C5_Witness ==
    /\ SteppedSkip
    /\ N0(last.ops[1]) = 14
    /\ ch8.pc = prev.pc + 6

PlaneBits == {1, 2, 4, 8}

HasBit(v, b) == (v \div b) % 2 = 1

\* some plane bit set in VRAM a is clear in VRAM b
BitLost(a, b) ==
    \E cell \in DOMAIN a : \E b0 \in PlaneBits :
      HasBit(a[cell], b0) /\ ~HasBit(Rd(b, cell, 0), b0)

\* the latest call executed exactly one DXYN, after 6XNN, ANNN and 1NNN
\* only and before 1NNN only, so that VRAM and VF changed in that draw alone
DrewOnce ==
    /\ last.call \in {"step", "run_block"}
    /\ ch8.fault = "none"
    /\ \E d \in 1 .. Len(last.ops) :
         /\ N0(last.ops[d]) = 13
         /\ \A k \in 1 .. (d - 1) : N0(last.ops[k]) \in {1, 6, 10}
         /\ \A k \in (d + 1) .. Len(last.ops) : N0(last.ops[k]) = 1

\* C6: after a sprite draw DXYN, by step() or by compiled code, VF is 0 or 1,
\* and VF = 1 exactly when some VRAM plane bit that was 1 before the draw is
\* 0 after it.
C6_DrawCollisionFlag ==
    DrewOnce =>
      /\ ch8.regs[15] \in {0, 1}
      /\ ch8.regs[15] = 1 <=> BitLost(prev.vram, ch8.vram)

\* compiled code drew in lo-res over earlier pixels, erasing some and
\* setting others
C6_Witness ==
    /\ DrewOnce
    /\ last.call = "run_block" /\ last.path \in {"hit", "compile"}
    /\ ~prev.hires
    /\ ch8.regs[15] = 1
    /\ BitLost(prev.vram, ch8.vram)
    /\ BitLost(ch8.vram, prev.vram)

\* the latest two calls were step() calls executing the same DXYN, X and Y
\* not F, with the same I, VX, VY, plane mask and resolution
DrewTwice ==
    /\ last.call = "step" /\ last.before = "step"
    /\ ch8.fault = "none"
    /\ ~prev.halted /\ ~prev2.halted
    /\ N0(last.ops[1]) = 13
    /\ fetch_op(prev2) = last.ops[1]
    /\ X(last.ops[1]) # 15 /\ Y(last.ops[1]) # 15
    /\ prev.i = prev2.i
    /\ prev.regs[X(last.ops[1])] = prev2.regs[X(last.ops[1])]
    /\ prev.regs[Y(last.ops[1])] = prev2.regs[Y(last.ops[1])]
    /\ prev.plane = prev2.plane
    /\ prev.hires = prev2.hires
    /\ prev.quirk_clipping = prev2.quirk_clipping
    /\ prev.mem = prev2.mem

\* C7: the same DXYN executed twice in a row by step() restores VRAM to its
\* content before the first draw, and the second draw sets VF = 1 whenever
\* the first draw set at least one pixel.
C7_DrawTwiceRestores ==
    DrewTwice =>
      /\ ch8.vram = prev2.vram
      /\ BitLost(prev.vram, prev2.vram) => ch8.regs[15] = 1

\* the first draw of the pair both set and erased pixels of a screen that
\* was not empty
C7_Witness ==
    /\ DrewTwice
    /\ BitLost(prev.vram, prev2.vram)
    /\ BitLost(prev2.vram, prev.vram)
    /\ ch8.regs[15] = 1

\* the latest call executed one FX55 or FX65, first, and after it 1NNN only
SavedOrLoaded ==
    /\ last.call \in {"step", "run_block"}
    /\ ~prev.halted
    /\ ch8.fault = "none"
    /\ Len(last.ops) >= 1
    /\ N0(last.ops[1]) = 15 /\ NN(last.ops[1]) \in {85, 101}
    /\ \A k \in 2 .. Len(last.ops) : N0(last.ops[k]) = 1

\* C8: after FX55 or FX65, by step() or by compiled code, I is I + X + 1 with
\* the memory quirk on and unchanged with it off, and exactly V0..VX and
\* mem[I .. I+X] are copied, from registers to memory by FX55 and from
\* memory to registers by FX65.
C8_SaveLoadAdvance ==
    SavedOrLoaded =>
      LET x == X(last.ops[1])
          i0 == prev.i
      IN /\ ch8.i = IF prev.quirk_memory THEN i0 + x + 1 ELSE i0
         /\ IF NN(last.ops[1]) = 85
            THEN /\ \A k \in 0 .. x : Rd(ch8.mem, i0 + k, 0) = prev.regs[k]
                 /\ \A a \in (DOMAIN ch8.mem) \cup (DOMAIN prev.mem) :
                      a \notin i0 .. (i0 + x) =>
                        Rd(ch8.mem, a, 0) = Rd(prev.mem, a, 0)
                 /\ ch8.regs = prev.regs
            ELSE /\ \A k \in 0 .. x : ch8.regs[k] = Rd(prev.mem, i0 + k, 0)
                 /\ \A k \in (x + 1) .. 15 : ch8.regs[k] = prev.regs[k]
                 /\ ch8.mem = prev.mem

\* the latest call ran a cached block that starts with ANNN or F000 NNNN and
\* goes on with 1NNN only
RanCachedLoadI ==
    /\ last.call = "run_block" /\ last.path = "hit"
    /\ ch8.fault = "none"
    /\ Len(last.ops) >= 1
    /\ N0(last.ops[1]) = 10 \/ last.ops[1] = 61440
    /\ \A k \in 2 .. Len(last.ops) : N0(last.ops[k]) = 1

\* C9: a cached block's ANNN at address a sets I to the low 12 bits of the
\* two bytes that are at a when the block runs, and its F000 NNNN sets I to
\* the two bytes that are at a+2, a+3 when the block runs.
C9_OperandReadAtRun ==
    RanCachedLoadI =>
      LET a == prev.pc IN
      ch8.i = IF N0(last.ops[1]) = 10
              THEN (Rd(prev.mem, a, 0) * 256 + Rd(prev.mem, a + 1, 0)) % 4096
              ELSE Rd(prev.mem, a + 2, 0) * 256 + Rd(prev.mem, a + 3, 0)

\* a cached ANNN ran after the guest had overwritten its operand
C9_Witness ==
    /\ RanCachedLoadI
    /\ N0(last.ops[1]) = 10
    /\ Rd(prev.mem, prev.pc, 0) * 256 + Rd(prev.mem, prev.pc + 1, 0) # last.ops[1]
    /\ ch8.i # NNN(last.ops[1])

(***************************************************************************)
(* Programs that load two registers and combine them                       *)
(***************************************************************************)
AluBytes == {0, 1, 127, 128, 255}

AluRegs == {0, 1, 15}

\* 6Xvx 6Yvy 8XYn
RomAlu(x, vx, y, vy, n) ==
    <<24576 + 256 * x + vx, 24576 + 256 * y + vy, 32768 + 256 * x + 16 * y + n>>

InitAlu ==
    /\ \E x \in AluRegs : \E y \in AluRegs : \E vx \in AluBytes :
         \E vy \in AluBytes : \E n \in {4, 5, 7} : \E system \in Systems :
           ch8 = Boot(RomAlu(x, vx, y, vy, n), system, "none", TRUE)
    /\ flags_file = NoFile
    /\ prev = ch8
    /\ prev2 = ch8
    /\ last = NoCall
    /\ drv = NoDriver

NextAlu == StepNoKeys

SpecAlu == InitAlu /\ [][NextAlu]_vars

\* the latest call was a step() that executed 8XY4, 8XY5 or 8XY7
SteppedAlu ==
    /\ last.call = "step" /\ ~prev.halted /\ ch8.fault = "none"
    /\ N0(last.ops[1]) = 8 /\ N(last.ops[1]) \in {4, 5, 7}

\* C10: after step() executes 8XY4, 8XY5 or 8XY7, VF is the carry (8XY4: 1
\* iff VX + VY > 255) or the NOT-borrow (8XY5: 1 iff VX >= VY; 8XY7: 1 iff
\* VY >= VX), also when X = F, and for X other than F VX is the result
\* modulo 256.
C10_ArithmeticFlags ==
    SteppedAlu =>
      LET x == X(last.ops[1])
          vx == prev.regs[x]
          vy == prev.regs[Y(last.ops[1])]
          n == N(last.ops[1])
          res == CASE n = 4 -> IF vx + vy > 255 THEN vx + vy - 256 ELSE vx + vy
                   [] n = 5 -> IF vx >= vy THEN vx - vy ELSE vx - vy + 256
                   [] n = 7 -> IF vy >= vx THEN vy - vx ELSE vy - vx + 256
          flag == CASE n = 4 -> IF vx + vy > 255 THEN 1 ELSE 0
                    [] n = 5 -> IF vx >= vy THEN 1 ELSE 0
                    [] n = 7 -> IF vy >= vx THEN 1 ELSE 0
      IN /\ ch8.regs[15] = flag
         /\ x # 15 => ch8.regs[x] = res

\* 8FY4 carried: the sum's low byte is not what VF holds
C10_Witness ==
    /\ SteppedAlu
    /\ X(last.ops[1]) = 15 /\ N(last.ops[1]) = 4
    /\ prev.regs[15] + prev.regs[Y(last.ops[1])] > 256
    /\ ch8.regs[15] = 1


(***************************************************************************)
(* Programs that load two registers and shift or combine them bitwise,     *)
(* under every system preset and with one quirk flipped                    *)
(***************************************************************************)
InitBits ==
    /\ \E x \in AluRegs : \E y \in AluRegs : \E vx \in AluBytes :
         \E vy \in AluBytes : \E n \in {1, 2, 3, 6, 14} : \E system \in Systems :
           \E flip \in {"none", "quirk_shifting", "quirk_vf_reset"} :
             ch8 = Boot(RomAlu(x, vx, y, vy, n), system, flip, TRUE)
    /\ flags_file = NoFile
    /\ prev = ch8
    /\ prev2 = ch8
    /\ last = NoCall
    /\ drv = NoDriver

NextBits == StepNoKeys

SpecBits == InitBits /\ [][NextBits]_vars

\* the latest call was a step() that executed 8XY6 or 8XYE
SteppedShift ==
    /\ last.call = "step" /\ ~prev.halted /\ ch8.fault = "none"
    /\ N0(last.ops[1]) = 8 /\ N(last.ops[1]) \in {6, 14}

\* C11: after step() executes 8XY6 or 8XYE the operand is VX when
\* quirk_shifting is set and VY otherwise; VF holds the bit shifted out
\* (bit 0 for 8XY6, bit 7 for 8XYE), also when X = F, and for X other than F
\* VX holds the operand shifted by one bit (left shift modulo 256).
C11_ShiftOperandAndFlag ==
    SteppedShift =>
      LET x == X(last.ops[1])
          v == prev.regs[IF prev.quirk_shifting THEN x ELSE Y(last.ops[1])]
          flag == ch8.regs[15]
      IN /\ flag \in {0, 1}
         /\ N(last.ops[1]) = 6 => flag = 1 <=> v \in {1, 127, 255}
         /\ N(last.ops[1]) = 14 => flag = 1 <=> v >= 128
         /\ x # 15 /\ N(last.ops[1]) = 6 => 2 * ch8.regs[x] + flag = v
         /\ x # 15 /\ N(last.ops[1]) = 14 => ch8.regs[x] + 256 * flag = 2 * v

\* 8XYE without the shifting quirk shifted VY's top bit out while VX's own
\* top bit was clear
C11_Witness ==
    /\ SteppedShift
    /\ N(last.ops[1]) = 14 /\ ~prev.quirk_shifting
    /\ X(last.ops[1]) # 15 /\ prev.regs[X(last.ops[1])] = 1
    /\ prev.regs[Y(last.ops[1])] = 128
    /\ ch8.regs[15] = 1 /\ ch8.regs[X(last.ops[1])] = 0


\* the latest call was a step() that executed 8XY1, 8XY2 or 8XY3
SteppedLogic ==
    /\ last.call = "step" /\ ~prev.halted /\ ch8.fault = "none"
    /\ N0(last.ops[1]) = 8 /\ N(last.ops[1]) \in {1, 2, 3}

\* C12: after step() executes 8XY1, 8XY2 or 8XY3, VX holds VX|VY, VX&VY or
\* VX^VY; with quirk_vf_reset set VF is 0 (also when X = F), and without it
\* VF is unchanged unless X = F, where VF holds the result.
C12_LogicVfReset ==
    SteppedLogic =>
      LET x == X(last.ops[1])
          vx == prev.regs[x]
          vy == prev.regs[Y(last.ops[1])]
          n == N(last.ops[1])
          both == BitAnd(vx, vy)
          res == CASE n = 1 -> vx + vy - both
                   [] n = 2 -> both
                   [] n = 3 -> vx + vy - 2 * both
      IN /\ x # 15 => ch8.regs[x] = res
         /\ prev.quirk_vf_reset => ch8.regs[15] = 0
         /\ ~prev.quirk_vf_reset /\ x # 15 => ch8.regs[15] = prev.regs[15]
         /\ ~prev.quirk_vf_reset /\ x = 15 => ch8.regs[15] = res

\* 8FY1 with the quirk set: the OR was not zero, VF is
C12_Witness ==
    /\ SteppedLogic
    /\ prev.quirk_vf_reset
    /\ X(last.ops[1]) = 15 /\ N(last.ops[1]) = 1
    /\ prev.regs[15] = 255
    /\ ch8.regs[15] = 0


(***************************************************************************)
(* A program that calls a routine which calls itself V0 - 1 times          *)
(***************************************************************************)
MaxNested == 90

NestDepths == {1, 2, 3, 16, 17}

\* 60dd 2206 1204 70FF 3000 2206 00EE
RomNest(depth) == <<24576 + depth, 8710, 4612, 28927, 12288, 8710, 238>>

InitNest ==
    /\ \E depth \in NestDepths : \E system \in Systems : \E checks \in BOOLEAN :
         ch8 = Boot(RomNest(depth), system, "none", checks)
    /\ flags_file = NoFile
    /\ prev = ch8
    /\ prev2 = ch8
    /\ last = NoCall
    /\ drv = NoDriver

StepNested ==
    /\ ch8.fault = "none"
    /\ last.calls < MaxNested
    /\ \E nd \in NdVals : step_call(set_keys(ch8, {}), nd.rnd)

NextNest == StepNested

SpecNest == InitNest /\ [][NextNest]_vars

\* the latest call was a step() that executed an instruction and returned
SteppedOp ==
    last.call = "step" /\ ~prev.halted /\ ch8.fault = "none"

\* C13: a 2NNN at address a stores a+2 at stack[SP], increments SP and sets
\* PC = NNN; a 00EE decrements SP and sets PC = stack[SP]; and the 00EE that
\* matches a call made at address a, after any properly nested calls and
\* returns in between, leaves PC = a+2 and SP as it was before that call.
C13_CallReturnLifo ==
    /\ SteppedOp /\ N0(last.ops[1]) = 2 =>
         /\ ch8.stack[prev.sp] = prev.pc + 2
         /\ ch8.sp = prev.sp + 1
         /\ ch8.pc = NNN(last.ops[1])
    /\ SteppedOp /\ last.ops[1] = 238 =>
         /\ ch8.sp = prev.sp - 1
         /\ ch8.pc = prev.stack[ch8.sp]
    /\ SteppedOp /\ last.matched # NoFrame =>
         /\ ch8.pc = last.matched.a + 2
         /\ ch8.sp = last.matched.sp

\* the return that matches the outermost of sixteen nested calls
C13_Witness ==
    /\ SteppedOp /\ last.matched = [a |-> 514, sp |-> 0]
    /\ ch8.stack[15] = 524
    /\ ch8.pc = 516 /\ ch8.sp = 0


(***************************************************************************)
(* The settings window: system buttons and quirk checkboxes, pressed       *)
(* between instructions                                                    *)
(***************************************************************************)
MaxSettings == 3

InitSettings == InitWith(<<RomAdd>>, {"none"}, {TRUE})

\* a system button: last.path names the system
SetSystem ==
    /\ ch8.fault = "none"
    /\ last.calls < MaxSettings
    /\ \E s \in Systems :
         Returned("set_system", ch8, Ret(set_system(ch8, s), 0, << >>, s),
                  flags_file)

\* a quirk checkbox: last.path names the quirk
ToggleQuirk ==
    /\ ch8.fault = "none"
    /\ last.calls < MaxSettings
    /\ \E q \in QuirkNames :
         Returned("toggle_quirk", ch8, Ret(toggle_quirk(ch8, q), 0, << >>, q),
                  flags_file)

StepSettings ==
    /\ ch8.fault = "none"
    /\ last.calls < MaxSettings
    /\ \E nd \in NdVals : step_call(set_keys(ch8, {}), nd.rnd)

NextSettings == SetSystem \/ ToggleQuirk \/ StepSettings

SpecSettings == InitSettings /\ [][NextSettings]_vars

\* the nine booleans of the quirk profile
Profile(c) ==
    <<c.quirk_vf_reset, c.quirk_memory, c.quirk_disp_wait, c.quirk_clipping,
      c.quirk_shifting, c.quirk_jumping, c.quirk_disp_wait_lores,
      c.quirk_scroll_full_lores, c.quirk_16_colors>>

\* C14: after set_system(s), called in any state, system = s and every quirk
\* boolean of the profile has the value of the preset of s whatever the
\* quirk values before the call were (the call made with any one quirk
\* toggled beforehand gives the same profile); calling set_system(s) again
\* changes nothing.
C14_SetSystemPreset ==
    last.call = "set_system" =>
      /\ ch8.system = last.path
      /\ \A q \in QuirkNames :
           Profile(set_system(toggle_quirk(prev, q), last.path)) = Profile(ch8)
      /\ set_system(ch8, last.path) = ch8


InitVblank == InitWith(RomsDraw, {"none", "quirk_disp_wait_lores"}, {TRUE})

\* run_block() has returned and the loop has not yet tested wait_vblank
PendingYield == last.call = "run_block" /\ ch8.wait_vblank

\* if chip8.wait_vblank { chip8.wait_vblank = false; ticks_left = 0; break; }
Yield ==
    /\ ch8.fault = "none"
    /\ PendingYield
    /\ Returned("yield", ch8,
                Ret([ch8 EXCEPT !.wait_vblank = FALSE], 0, << >>, "yield"),
                flags_file)

StepFrame == ~PendingYield /\ StepNoKeys

RunBlockFrame == ~PendingYield /\ RunBlockNoKeys

NextVblank == StepFrame \/ RunBlockFrame \/ Yield

SpecVblank == InitVblank /\ [][NextVblank]_vars

\* C16: after a call that executed a DXYN (by step(), or in a block run by
\* run_block() in which nothing else touches the display mode), wait_vblank
\* is true whenever quirk_disp_wait and quirk_disp_wait_lores are set and
\* hires is false.
C16_DrawSetsVblank ==
    DrewOnce /\ ch8.quirk_disp_wait /\ ch8.quirk_disp_wait_lores /\ ~ch8.hires
      => ch8.wait_vblank


\* the latest call was a step() that executed a DXYN
SteppedDraw ==
    /\ last.call = "step" /\ ~prev.halted /\ ch8.fault = "none"
    /\ N0(last.ops[1]) = 13

\* the cells in which VRAM a and VRAM b differ in plane bit b0
Toggled(a, b, b0) ==
    {cell \in (DOMAIN a) \cup (DOMAIN b) :
       HasBit(Rd(a, cell, 0), b0) # HasBit(Rd(b, cell, 0), b0)}

\* pixel (col, row) of the sprite that c holds at I for the k-th selected
\* plane, for a DXYN with low nibble n
SpritePixel(c, k, n, col, row) ==
    LET byte_width == IF n = 0 THEN 2 ELSE 1
        num_bytes == IF n = 0 THEN 32 ELSE n
        byte == MemRd(c, c.i + k * num_bytes + row * byte_width + (col \div 8))
    IN HasBit(byte, 2 ^ (7 - (col % 8)))

\* the cells a DXYN in state c toggles in plane bit b0 according to the
\* positions stated for the sprite's pixels: s is 1 in hi-res and 2 in lo-res
\* (where a pixel is a 2x2 block), columns and rows wrap unless clip is set,
\* and then pixels past the right edge and rows past the bottom are left out
SpriteCells(c, op, b0, clip) ==
    LET s == IF c.hires THEN 1 ELSE 2
        startX == (c.regs[X(op)] * s) % WIDTH
        startY == (c.regs[Y(op)] * s) % HEIGHT
        k == Cardinality({q \in PlaneBits : q < b0 /\ HasBit(c.plane, q)})
        cols == IF N(op) = 0 THEN 16 ELSE 8
        rows == IF N(op) = 0 THEN 16 ELSE N(op)
    IN IF ~HasBit(c.plane, b0) THEN {}
       ELSE {(((startY + row * s) % HEIGHT) + dy) * WIDTH
               + ((startX + col * s) % WIDTH) + dx :
             <<col, row, dx, dy>> \in
               {p \in (0 .. cols - 1) \X (0 .. rows - 1)
                        \X (0 .. s - 1) \X (0 .. s - 1) :
                  /\ SpritePixel(c, k, N(op), p[1], p[2])
                  /\ clip => startX + p[1] * s < WIDTH
                  /\ clip => startY + p[2] * s < HEIGHT}}

\* C17: a DXYN executed by step() with the clipping quirk off XORs each
\* sprite pixel (c, r) at column (startX + c*s) mod W and row
\* (startY + r*s) mod H, s being 1 in hi-res and 2 in lo-res; with the quirk
\* on it XORs the pixels that fall inside the screen at startX + c*s,
\* startY + r*s and drops the others, so that no cell left of startX or above
\* startY changes.
C17_DrawPositions ==
    SteppedDraw =>
      LET op == last.ops[1]
          s == IF prev.hires THEN 1 ELSE 2
          startX == (prev.regs[X(op)] * s) % WIDTH
          startY == (prev.regs[Y(op)] * s) % HEIGHT
      IN \A b0 \in PlaneBits :
           /\ Toggled(prev.vram, ch8.vram, b0)
                = SpriteCells(prev, op, b0, prev.quirk_clipping)
           /\ prev.quirk_clipping =>
                \A cell \in Toggled(prev.vram, ch8.vram, b0) :
                  (cell % WIDTH) >= startX /\ (cell \div WIDTH) >= startY

\* without clipping a sprite drawn near the right edge came out at the left
C17_Witness ==
    /\ SteppedDraw
    /\ ~prev.quirk_clipping
    /\ \E cell \in Toggled(prev.vram, ch8.vram, 1) :
         (cell % WIDTH) < ((IF prev.hires THEN 1 ELSE 2)
                           * prev.regs[X(last.ops[1])]) % WIDTH


(***************************************************************************)
(* Programs that draw a digit on planes 0 and 1, select a plane mask and   *)
(* scroll                                                                  *)
(***************************************************************************)
ScrollOps == {195, 211, 251, 252}

ScrollMasks == {1, 2}

ScrollSpots == {<<0, 0>>, <<60, 27>>}

\* 00FE|00FF F301 60xx 61yy A050 D015 Fm01 (scroll) 1210
RomScroll(res, spot, mask, op) ==
    <<res, 62209, 24576 + spot[1], 24832 + spot[2], 41040, 53269,
      61441 + 256 * mask, op, 4624>>

InitScroll ==
    /\ \E res \in {254, 255} : \E spot \in ScrollSpots : \E mask \in ScrollMasks :
         \E op \in ScrollOps : \E system \in Systems :
           \E flip \in {"none", "quirk_scroll_full_lores"} :
             ch8 = Boot(RomScroll(res, spot, mask, op), system, flip, TRUE)
    /\ flags_file = NoFile
    /\ prev = ch8
    /\ prev2 = ch8
    /\ last = NoCall
    /\ drv = NoDriver

NextScroll == StepNoKeys

SpecScroll == InitScroll /\ [][NextScroll]_vars


\* the latest call was a step() that executed a scroll opcode on a system
\* that has it
SteppedScroll ==
    /\ last.call = "step" /\ ~prev.halted /\ ch8.fault = "none"
    /\ last.ops[1] \in (192 .. 223) \cup {251, 252}
    /\ prev.system # "CHIP8"
    /\ last.ops[1] \in 208 .. 223 => prev.system = "XOCHIP"

\* the cell whose bits a scroll by op moves into cell, k being 2 for a full
\* lo-res scroll and 1 otherwise; -1 if there is none
ScrollSource(op, k, cell) ==
    LET row == cell \div WIDTH
        col == cell % WIDTH
        srow == CASE op \in 192 .. 207 -> row - k * N(op)
                  [] op \in 208 .. 223 -> row + k * N(op)
                  [] OTHER -> row
        scol == CASE op = 251 -> col - 4 * k
                  [] op = 252 -> col + 4 * k
                  [] OTHER -> col
    IN IF srow \in 0 .. HEIGHT - 1 /\ scol \in 0 .. WIDTH - 1
       THEN srow * WIDTH + scol ELSE -1

\* C18: after step() executes 00CN, 00DN, 00FB or 00FC on a system that has
\* the opcode, the bits of every VRAM cell selected by the plane mask are the
\* prior selected bits of the cell k*N rows (k*4 columns) away against the
\* scroll direction, or zero if there is no such cell, with k = 2 when hires
\* is false and quirk_scroll_full_lores is set and k = 1 otherwise; the bits
\* not selected by the plane mask are unchanged.
C18_ScrollByPlane ==
    SteppedScroll =>
      LET k == IF ~prev.hires /\ prev.quirk_scroll_full_lores THEN 2 ELSE 1 IN
      \A cell \in 0 .. WIDTH * HEIGHT - 1 : \A b0 \in PlaneBits :
        HasBit(Rd(ch8.vram, cell, 0), b0)
          = IF HasBit(prev.plane, b0)
            THEN HasBit(Rd(prev.vram, ScrollSource(last.ops[1], k, cell), 0), b0)
            ELSE HasBit(Rd(prev.vram, cell, 0), b0)

\* a full lo-res scroll to the right moved plane 0 of a pixel by eight
\* columns and left its plane 1 in place
C18_Witness ==
    /\ SteppedScroll
    /\ last.ops[1] = 251 /\ ~prev.hires /\ prev.quirk_scroll_full_lores
    /\ prev.plane = 1
    /\ \E cell \in DOMAIN prev.vram :
         /\ prev.vram[cell] = 3
         /\ Rd(ch8.vram, cell + 8, 0) % 2 = 1
         /\ Rd(ch8.vram, cell, 0) \in {2, 3}


(***************************************************************************)
(* Programs that draw a digit on planes 0 and 1, select a plane mask and   *)
(* clear the screen, interpreted and translated in any interleaving        *)
(***************************************************************************)
InitClear ==
    /\ \E res \in {254, 255} : \E mask \in 0 .. 3 : \E system \in Systems :
         ch8 = Boot(RomScroll(res, <<60, 27>>, mask, 224), system, "none", TRUE)
    /\ flags_file = NoFile
    /\ prev = ch8
    /\ prev2 = ch8
    /\ last = NoCall
    /\ drv = NoDriver

NextClear == StepNoKeys \/ RunBlockNoKeys

SpecClear == InitClear /\ [][NextClear]_vars

\* the latest call executed a 00E0 first, and after it jumps only
ClearedFirst ==
    /\ last.call \in {"step", "run_block"}
    /\ ~prev.halted /\ ch8.fault = "none"
    /\ Len(last.ops) >= 1 /\ last.ops[1] = 224
    /\ \A k \in 2 .. Len(last.ops) : N0(last.ops[k]) = 1

\* C19: after a 00E0 executed by step(), or by xo_clear() in a translated
\* block that holds nothing else but a jump, every VRAM byte is its previous
\* value without the bits of the plane mask, and nothing else has changed
\* but PC (and, in run_block(), the translator's own fields mems, try_jit,
\* inf_loop and jit_cyc).
C19_ClearByPlane ==
    ClearedFirst =>
      /\ \A cell \in 0 .. WIDTH * HEIGHT - 1 :
           Rd(ch8.vram, cell, 0)
             = Rd(prev.vram, cell, 0) - BitAnd(Rd(prev.vram, cell, 0), prev.plane)
      /\ IF last.call = "step"
         THEN [ch8 EXCEPT !.vram = prev.vram, !.pc = prev.pc] = prev
         ELSE [ch8 EXCEPT !.vram = prev.vram, !.pc = prev.pc,
                          !.mems = prev.mems, !.try_jit = prev.try_jit,
                          !.inf_loop = prev.inf_loop,
                          !.jit_cyc = prev.jit_cyc] = prev

\* translated code cleared plane 0 of a pixel that was set on planes 0 and 1
C19_Witness ==
    /\ ClearedFirst
    /\ last.call = "run_block"
    /\ prev.plane = 1
    /\ \E cell \in DOMAIN prev.vram :
         prev.vram[cell] = 3 /\ Rd(ch8.vram, cell, 0) = 2


(***************************************************************************)
(* The watchpoint query of main(): check_mem_access() before the next      *)
(* instruction, on a program that saves, loads and draws                   *)
(***************************************************************************)
\* A300 F002 F133 F255 F165 5122 5123 611E D015 5212 1214
RomWatch ==
    <<41728, 61442, 61747, 62037, 61797, 20770, 20771, 24862, 53269, 21010,
      4628>>

InitWatch == InitWith(<<RomWatch>>, {"none", "quirk_clipping"}, BOOLEAN)

\* let accesses = chip8.check_mem_access(): last.ops is the list returned
CheckMemAccess ==
    /\ ch8.fault = "none"
    /\ last.calls < MaxCalls
    /\ last.call # "check_mem_access"
    /\ Returned("check_mem_access", ch8,
                Ret(Panic(ch8, check_mem_access(ch8).fault), 0,
                    check_mem_access(ch8).list, "query"),
                flags_file)

NextWatch == StepNoKeys \/ CheckMemAccess

SpecWatch == InitWatch /\ [][NextWatch]_vars

\* C20: the list check_mem_access() returns in a state that is not halted
\* is the sequence of data-memory accesses, with their directions, of the
\* step() that follows (empty if that step() accesses no data memory), on
\* every system and under every quirk setting; in a halted state the list is
\* empty.
C20_WatchListMatchesStep ==
    last.call = "check_mem_access" =>
      /\ ch8.fault = "none"
      /\ last.ops = IF ch8.halted THEN << >> ELSE step_accesses(ch8)

(***************************************************************************)
(* The flag file: programs that save and load the flag registers, started  *)
(* with no file or with a file of 16 bytes left by an earlier run.         *)
(***************************************************************************)
FlagXs == {0, 3, 7, 9, 15}

\* the bytes 17..32 and 65..80 as words
Data17 == <<4370, 4884, 5398, 5912, 6426, 6940, 7454, 7968>>

Data65 == <<16706, 17220, 17734, 18248, 18762, 19276, 19790, 20304>>

\* A210 FF65 FX75 A220 FF65 FX85 120C 0000 (17..32) (65..80) :
\* registers 17..32 saved, registers 65..80 loaded over
RomFlags(x) ==
    <<41488, 65381, 61557 + 256 * x, 41504, 65381, 61573 + 256 * x, 4620, 0>>
      \o Data17 \o Data65

\* A210 FF65 FX85 1206 0 0 0 0 (17..32) : a load with nothing saved before
RomFlagsLoad(x) ==
    <<41488, 65381, 61573 + 256 * x, 4614, 0, 0, 0, 0>> \o Data17

OldFile == [exists |-> TRUE, bytes |-> [k \in 1 .. 16 |-> 100 + k]]

InitFlags ==
    /\ \E x \in FlagXs : \E system \in Systems :
         \E rom \in {RomFlags(x), RomFlagsLoad(x)} :
           ch8 = Boot(rom, system, "none", TRUE)
    /\ flags_file \in {NoFile, OldFile}
    /\ prev = ch8
    /\ prev2 = ch8
    /\ last = NoCall
    /\ drv = NoDriver

NextFlags == StepNoKeys \/ RunBlockNoKeys

SpecFlags == InitFlags /\ [][NextFlags]_vars

\* the latest call was one step() of FXnn, made by the driver or by
\* run_block(), and it returned
SteppedFlags(nn) ==
    /\ ch8.fault = "none"
    /\ ~prev.halted
    /\ last.path \in {"step", "mark", "no_jit"}
    /\ last.ops # << >>
    /\ N0(last.ops[1]) = 15
    /\ NN(last.ops[1]) = nn

\* X' of the latest call
FlagLast == IF prev.system = "XOCHIP" THEN X(last.ops[1]) ELSE min(X(last.ops[1]), 7)

\* C21: with X' = X on XO-CHIP and min(X, 7) on the SCHIP variants, FX75
\* leaves a 16-byte file whose bytes 0..X' are V0..VX' and whose other bytes
\* are those of the file before (0 without a file), and FX85 sets V0..VX' to
\* the file's bytes 0..X' (creating a file of 16 zero bytes and loading 0
\* without a file) and changes no other register; nothing else writes the
\* file, so an FX85 after an FX75 loads what was saved; on CHIP8 neither
\* changes a register or the file.
C21_FlagFileRoundTrip ==
    /\ SteppedFlags(117) =>
         /\ ch8.regs = prev.regs
         /\ IF prev.system = "CHIP8" THEN flags_file = last.file
            ELSE /\ flags_file.exists
                 /\ Len(flags_file.bytes) = 16
                 /\ \A b \in 0 .. 15 :
                      flags_file.bytes[b + 1] =
                        IF b <= FlagLast THEN prev.regs[b]
                        ELSE IF last.file.exists THEN last.file.bytes[b + 1]
                        ELSE 0
    /\ SteppedFlags(133) =>
         IF prev.system = "CHIP8"
         THEN ch8.regs = prev.regs /\ flags_file = last.file
         ELSE /\ flags_file.exists
              /\ flags_file.bytes =
                   (IF last.file.exists THEN last.file.bytes ELSE ZeroFlags)
              /\ \A r \in 0 .. 15 :
                   ch8.regs[r] =
                     IF r <= FlagLast THEN flags_file.bytes[r + 1] ELSE prev.regs[r]
    /\ (last.call # "none" /\ ~SteppedFlags(117) /\ ~SteppedFlags(133)) =>
         flags_file = last.file

\* an FX85 with X = 9 on an SCHIP variant has loaded the eight bytes that the
\* FX75 before it saved over an older file, and has left V8 and V9 alone
C21_Witness ==
    /\ SteppedFlags(133)
    /\ prev.system = "LSCHIP"
    /\ X(last.ops[1]) = 9
    /\ flags_file.bytes = [k \in 1 .. 16 |-> IF k <= 8 THEN 16 + k ELSE 100 + k]
    /\ ch8.regs = [r \in 0 .. 15 |-> IF r <= 7 THEN 17 + r ELSE 65 + r]

(***************************************************************************)
(* Decoding: programs whose first word is a probe, some of them opcodes    *)
(* and some not.                                                           *)
(***************************************************************************)
\* 9011 901F 5121 8128 F100 F102 E100 00E1 F1FF, and the opcodes 9010 6001
\* F000 F002
Probes == {36881, 36895, 20769, 33064, 61696, 61698, 57600, 225, 61951,
           36880, 24577, 61440, 61442}

\* w 6105 1204
RomProbe(w) == <<w, 24837, 4612>>

InitDecode ==
    /\ \E w \in Probes : \E system \in Systems : \E checks \in BOOLEAN :
         ch8 = Boot(RomProbe(w), system, "none", checks)
    /\ flags_file = NoFile
    /\ prev = ch8
    /\ prev2 = ch8
    /\ last = NoCall
    /\ drv = NoDriver

NextDecode == StepNoKeys

SpecDecode == InitDecode /\ [][NextDecode]_vars

\* the words of the opcode contract
InContract(op) ==
    CASE N0(op) = 0 -> NNN(op) \in (192 .. 224) \cup {238, 251, 252, 253, 254, 255}
      [] N0(op) = 5 -> N(op) \in {0, 2, 3}
      [] N0(op) = 8 -> N(op) \in (0 .. 7) \cup {14}
      [] N0(op) = 9 -> N(op) = 0
      [] N0(op) = 14 -> NN(op) \in {158, 161}
      [] N0(op) = 15 ->
           \/ NN(op) \in {0, 2} /\ X(op) = 0
           \/ NN(op) \in {1, 7, 10, 21, 24, 30, 41, 48, 51, 58, 85, 101, 117, 133}
      [] OTHER -> TRUE

\* C22: a step() that fetches a word outside the opcode contract ends in the
\* unknown-opcode abort.
C22_UnknownOpcodeAborts ==
    (/\ last.call = "step"
     /\ ~prev.halted
     /\ fetch(prev).fault = "none"
     /\ ~InContract(fetch_op(prev)))
      => ch8.fault = "unknown_opcode"

(***************************************************************************)
(* The parity of PC: programs with even and with odd branch targets.       *)
(***************************************************************************)
\* 1203 0061 0512 0500 : a jump into the odd-aligned code 6105 1205
RomOddJump == <<4611, 97, 1298, 1280>>

\* 2203 0000 EE00 : a call of the odd-aligned 00EE
RomOddCall == <<8707, 0, 60928>>

\* 6001 BNNN 1204 : a computed jump
RomJumpV(nnn) == <<24577, 45056 + nnn, 4612>>

RomsParity == <<RomCall, RomSkips, RomSkipLong, RomSkipSkip, RomOddJump,
                RomOddCall, RomJumpV(515), RomJumpV(516)>>

InitParity == InitWith(RomsParity, {"none"}, BOOLEAN)

NextParity == StepNoKeys \/ RunBlockNoKeys

SpecParity == InitParity /\ [][NextParity]_vars

\* PC and every stacked return address are even
EvenState(c) ==
    /\ c.pc % 2 = 0
    /\ \A s \in 0 .. 15 : c.stack[s] % 2 = 0

\* the latest call executed a 1NNN or 2NNN whose NNN is odd, or a BNNN whose
\* target NNN + V is odd
OddTransfer ==
    \E k \in 1 .. Len(last.ops) :
      LET op == last.ops[k] IN
      \/ N0(op) \in {1, 2} /\ NNN(op) % 2 = 1
      \/ /\ N0(op) = 11
         /\ (NNN(op) + prev.regs[IF prev.quirk_jumping THEN X(op) ELSE 0]) % 2 = 1

MaxFrames == 3

\* values of the "Instructions per frame" field
Budgets == {1, 2, 3}

Call(call, c0, r) ==
    [call |-> call, before |-> c0, after |-> r.c, cyc |-> r.cyc, ops |-> r.ops,
     path |-> r.path]

\* the frame in progress
Work(c, file, ticks_left, trace, done) ==
    [c |-> c, file |-> file, ticks_left |-> ticks_left, trace |-> trace,
     done |-> done]

\* if system.reset_pressed { .. chip8 = Chip8::new(); chip8.load_rom(rom.clone()) }
reset(c, d) ==
    IF d.reset_pressed THEN load_rom(new(c.overflow_checks), Bytes(d.rom)) ELSE c

\* Watchpoints::check_mem_access on the list of Chip8::check_mem_access
watch_hit(list, watchpoints) ==
    \E k \in DOMAIN list : \E n \in DOMAIN watchpoints :
      /\ list[k][1] >= watchpoints[n].addr_start
      /\ list[k][1] <= watchpoints[n].addr_end
      /\ IF list[k][2] THEN watchpoints[n].read ELSE watchpoints[n].write

\* if system.step_pressed { chip8.paused = true; chip8.step(); ticks_left -= 1 }
step_button(w, d, nd) ==
    IF ~d.step_pressed \/ d.reset_pressed THEN w
    ELSE Work(step([w.c EXCEPT !.paused = TRUE], w.file, nd.rnd),
              step_file(w.c, w.file), w.ticks_left - 1,
              Append(w.trace,
                     Call("step", [w.c EXCEPT !.paused = TRUE],
                          Ret(step([w.c EXCEPT !.paused = TRUE], w.file, nd.rnd),
                              1, step_ops(w.c), "step"))),
              FALSE)

\* the tests of the run loop after run_block() has returned r
after_call(w, d, r, file) ==
    IF r.c.fault # "none"
    THEN Work(r.c, file, w.ticks_left - r.cyc,
              Append(w.trace, Call("run_block", w.c, r)), TRUE)
    ELSE IF r.c.halted
    THEN Work(r.c, file, 0, Append(w.trace, Call("run_block", w.c, r)), TRUE)
    ELSE IF r.c.pc \in d.breakpoints
    THEN Work([r.c EXCEPT !.paused = TRUE], file, 0,
              Append(w.trace, Call("run_block", w.c, r)), TRUE)
    ELSE IF r.c.wait_vblank
    THEN Work([r.c EXCEPT !.wait_vblank = FALSE], file, 0,
              Append(w.trace, Call("run_block", w.c, r)), TRUE)
    ELSE Work(r.c, file, w.ticks_left - r.cyc,
              Append(w.trace, Call("run_block", w.c, r)), FALSE)

\* while ticks_left > 0 { .. }
RECURSIVE run_loop(_, _, _)
\* run_loop making one more call when the budget is exactly used up
run_loop_extra(w, d, nd) ==
    IF w.done \/ w.ticks_left < 0 THEN w
    ELSE IF d.watchpoints # << >> /\ check_mem_access(w.c).fault # "none"
    THEN Work(Panic(w.c, check_mem_access(w.c).fault), w.file, w.ticks_left,
              w.trace, TRUE)
    ELSE IF d.watchpoints # << >>
            /\ watch_hit(check_mem_access(w.c).list, d.watchpoints)
    THEN Work([w.c EXCEPT !.paused = TRUE], w.file, 0, w.trace, TRUE)
    ELSE run_loop(after_call(w, d, run_block(w.c, w.file, nd),
                             run_block_file(w.c, w.file)),
                  d, nd)

run_loop(w, d, nd) ==
    IF w.done \/ w.ticks_left <= 0 THEN w
    ELSE IF d.watchpoints # << >> /\ check_mem_access(w.c).fault # "none"
    THEN Work(Panic(w.c, check_mem_access(w.c).fault), w.file, w.ticks_left,
              w.trace, TRUE)
    ELSE IF d.watchpoints # << >>
            /\ watch_hit(check_mem_access(w.c).list, d.watchpoints)
    THEN Work([w.c EXCEPT !.paused = TRUE], w.file, 0, w.trace, TRUE)
    ELSE run_loop(after_call(w, d, run_block(w.c, w.file, nd),
                             run_block_file(w.c, w.file)),
                  d, nd)

\* if chip8.paused { ticks_left = 0 } else { while .. }
run_frame(w, d, nd) ==
    IF w.c.fault # "none" THEN w
    ELSE IF w.c.paused THEN Work(w.c, w.file, 0, w.trace, TRUE)
    ELSE run_loop(w, d, nd)

\* tick lowering a timer that is 0 as well
tick_wrapping(timer) == (timer - 1) % 256

\* a timer at the end of a frame
tick(timer) == IF timer # 0 THEN timer - 1 ELSE 0

\* if ticks_left <= 0 { ticks_left = system.ins_per_frame; .. }
frame_end(c) == [c EXCEPT !.delay = tick(c.delay), !.sound = tick(c.sound)]

frame_ends(w) == w.c.fault = "none" /\ w.ticks_left <= 0

\* the frame from the keys on: e is the core that has read them
frame(e, file, d, nd) ==
    run_frame(step_button(Work(e, file, d.ticks_left, << >>, FALSE), d, nd), d, nd)

\* the frame has run from e to w
Framed(c0, e, w) ==
    /\ ch8' = IF frame_ends(w) THEN frame_end(w.c) ELSE w.c
    /\ flags_file' = w.file
    /\ prev' = c0
    /\ prev2' = prev
    /\ last' = [call |-> "frame", cyc |-> 0, ops |-> << >>, path |-> "frame",
                file |-> flags_file, before |-> last.call,
                calls |-> last.calls + 1, frames |-> << >>, matched |-> NoFrame]
    /\ drv' = [drv EXCEPT !.ticks_left = IF frame_ends(w) THEN drv.ins_per_frame
                                         ELSE w.ticks_left,
                          !.reset_pressed = FALSE,
                          !.step_pressed = FALSE,
                          !.frames = drv.frames + 1,
                          !.did_reset = drv.reset_pressed,
                          !.entry = e,
                          !.trace = w.trace,
                          !.at_end = w.c,
                          !.ended = frame_ends(w)]

Frame ==
    /\ ch8.fault = "none"
    /\ drv.frames < MaxFrames
    /\ \E nd \in NdVals :
         Framed(ch8, set_keys(reset(ch8, drv), {}),
                frame(set_keys(reset(ch8, drv), {}), flags_file, drv, nd))

\* the buttons Pause / Unpause, Step and Reset
ClickPause ==
    /\ ch8.fault = "none"
    /\ ch8' = [ch8 EXCEPT !.paused = ~@]
    /\ UNCHANGED <<flags_file, prev, prev2, last, drv>>

ClickStep ==
    /\ ch8.fault = "none"
    /\ ~drv.step_pressed
    /\ drv' = [drv EXCEPT !.step_pressed = TRUE]
    /\ UNCHANGED <<ch8, flags_file, prev, prev2, last>>

ClickReset ==
    /\ ch8.fault = "none"
    /\ ~drv.reset_pressed
    /\ drv' = [drv EXCEPT !.reset_pressed = TRUE]
    /\ UNCHANGED <<ch8, flags_file, prev, prev2, last>>

\* 6003 F015 6102 F118 7001 1208 : both timers set, then a loop
RomTimers == <<24579, 61461, 24834, 61720, 28673, 4616>>

\* 6003 F015 F018 F10A 1200 : timers set, then a wait for a key
RomTimersKey == <<24579, 61461, 61464, 61706, 4608>>

RomsFrame == <<RomTimers, RomTimersKey, RomKey, RomSelf, RomDraw>>

\* the glyph that RomDraw reads
GlyphWatch == <<[addr_start |-> 80, addr_end |-> 84, read |-> TRUE, write |-> FALSE]>>

\* main() when the budget has been typed in and a paused frame has run
InitFrame ==
    /\ \E k \in 1 .. Len(RomsFrame) : \E budget \in Budgets :
         \E watchpoints \in IF RomsFrame[k] = RomDraw THEN {<< >>, GlyphWatch}
                            ELSE {<< >>} :
           /\ ch8 = Boot(RomsFrame[k], "XOCHIP", "none", TRUE)
           /\ drv = [ticks_left |-> budget, ins_per_frame |-> budget,
                     reset_pressed |-> FALSE, step_pressed |-> FALSE,
                     rom |-> RomsFrame[k], watchpoints |-> watchpoints,
                     breakpoints |-> {}, frames |-> 0, did_reset |-> FALSE,
                     entry |-> ch8, trace |-> << >>, at_end |-> ch8,
                     ended |-> FALSE]
    /\ flags_file = NoFile
    /\ prev = ch8
    /\ prev2 = ch8
    /\ last = NoCall

NextFrame == Frame \/ ClickPause \/ ClickStep \/ ClickReset

SpecFrame == InitFrame /\ [][NextFrame]_vars


\* the position in ops of the last FX15 (nn = 21) or FX18 (nn = 24), 0 if none
LastTimerOp(ops, nn) ==
    LET at == {k \in 1 .. Len(ops) : N0(ops[k]) = 15 /\ NN(ops[k]) = nn} IN
    IF at = {} THEN 0 ELSE CHOOSE k \in at : \A k2 \in at : k2 <= k

\* the timer after the call e: the value from before it, or VX as it was when
\* the last FX15 / FX18 of the call executed
TimerAfter(e, nn, timer) ==
    IF LastTimerOp(e.ops, nn) = 0 THEN timer
    ELSE StepN(e.before, NoFile, LastTimerOp(e.ops, nn) - 1, 0)
           .regs[X(e.ops[LastTimerOp(e.ops, nn)])]

\* the calls of the latest frame that returned
Returns == {k \in 1 .. Len(drv.trace) : drv.trace[k].after.fault = "none"}

\* the core in front of the k-th call of the latest frame
Before(k) == IF k = 1 THEN drv.entry ELSE drv.trace[k - 1].after

\* C24: across every step() and run_block() call of a frame, delay changes
\* only to the VX of an executed FX15 and sound only to the VX of an executed
\* FX18; nothing in the frame changes them between the calls; the end of the
\* frame lowers a non-zero timer by 1 and leaves a zero timer at 0, and a
\* frame that does not end, and the buttons, leave both timers alone.
C24_TimersChangeOnlyBySetAndFrameEnd ==
    (last.call = "frame" /\ ch8.fault = "none") =>
      /\ \A k \in Returns :
           /\ drv.trace[k].after.delay =
                TimerAfter(drv.trace[k], 21, drv.trace[k].before.delay)
           /\ drv.trace[k].after.sound =
                TimerAfter(drv.trace[k], 24, drv.trace[k].before.sound)
           /\ drv.trace[k].before.delay = Before(k).delay
           /\ drv.trace[k].before.sound = Before(k).sound
      /\ drv.at_end.delay = Before(Len(drv.trace) + 1).delay
      /\ drv.at_end.sound = Before(Len(drv.trace) + 1).sound
      /\ ~drv.did_reset => /\ drv.entry.delay = prev.delay
                           /\ drv.entry.sound = prev.sound
      /\ ch8.delay = IF ~drv.ended THEN drv.at_end.delay
                     ELSE IF drv.at_end.delay # 0 THEN drv.at_end.delay - 1
                     ELSE 0
      /\ ch8.sound = IF ~drv.ended THEN drv.at_end.sound
                     ELSE IF drv.at_end.sound # 0 THEN drv.at_end.sound - 1
                     ELSE 0

\* a block that executed FX15 and FX18 has set delay to 3 and sound to 2, and
\* the end of that frame has lowered them to 2 and 1
C24_Witness ==
    /\ last.call = "frame"
    /\ ch8.fault = "none"
    /\ Len(drv.trace) = 1
    /\ drv.trace[1].call = "run_block"
    /\ LastTimerOp(drv.trace[1].ops, 21) = 2
    /\ LastTimerOp(drv.trace[1].ops, 24) = 4
    /\ drv.entry.delay = 0
    /\ drv.at_end.delay = 3
    /\ drv.at_end.sound = 2
    /\ drv.ended
    /\ ch8.delay = 2
    /\ ch8.sound = 1


\* the run_block calls of the latest frame that returned with wait_vblank set
VblankReturns ==
    {k \in Returns : /\ drv.trace[k].call = "run_block"
                     /\ drv.trace[k].after.wait_vblank}

\* C25: whenever a run_block() call of the run loop returns with wait_vblank
\* set, the frame makes no further step()/run_block() call and the driver has
\* cleared wait_vblank when the run loop is left.
C25_VblankEndsFrameAndIsCleared ==
    (last.call = "frame" /\ ch8.fault = "none") =>
      \A k \in VblankReturns : /\ k = Len(drv.trace)
                               /\ ~drv.at_end.wait_vblank

\* the part of C25 the loop does keep: no call follows such a return
C25_NoCallAfterVblank ==
    (last.call = "frame" /\ ch8.fault = "none") =>
      \A k \in VblankReturns : k = Len(drv.trace)

\* a returned run_block with wait_vblank set and the core not halted, cleared
C25_Witness ==
    /\ last.call = "frame"
    /\ ch8.fault = "none"
    /\ VblankReturns = {1}
    /\ ~drv.trace[1].after.halted
    /\ drv.ticks_left = drv.ins_per_frame
    /\ ~ch8.wait_vblank


\* the latest call was a run_block() that ran a block of register loads and
\* adds ending in a 1NNN whose target is that 1NNN's own address
SelfJumpReached ==
    /\ last.call = "run_block"
    /\ last.path \in {"hit", "compile"}
    /\ ch8.fault = "none"
    /\ last.ops # << >>
    /\ \A k \in 1 .. Len(last.ops) - 1 : N0(last.ops[k]) \in {6, 7, 10}
    /\ N0(last.ops[Len(last.ops)]) = 1
    /\ NNN(last.ops[Len(last.ops)]) = prev.pc + 2 * (Len(last.ops) - 1)

\* C26: a run_block() call whose block reaches a 1NNN that jumps to its own
\* address returns a cycle count of at least 1,000,000.
C26_SelfJumpReturnsForcedCycles ==
    SelfJumpReached => last.cyc >= INF_LOOP_CYC


(***************************************************************************)
(* The block cache and the sentinel try_jit under self-modifying programs. *)
(***************************************************************************)
\* 7107 1204 A200 6072 F055 1200 : the block at 0x200 adds 7 to V1; the block
\* at 0x204 rewrites the first byte of 0x200, which makes the word 7207
RomSmcCode == <<28935, 4612, 41472, 24690, 61525, 4608>>

\* 1204 0000 F129 1208 A204 6071 F055 1204 : F129 has no translation; the
\* block at 0x208 rewrites its first byte, which makes the word 7129
RomSmcMark == <<4612, 0, 61737, 4616, 41476, 24689, 61525, 4612>>

RomsSmc == <<RomSmcCode, RomSmcMark, RomSmcA, RomSmcLong>>

InitSmc == InitWith(RomsSmc, {"none"}, BOOLEAN)

NextSmc == StepNoKeys \/ RunBlockNoKeys

\* self-modifying programs, interpreted and compiled in any interleaving
SpecSmc == InitSmc /\ [][NextSmc]_vars

\* the latest call has returned what the cached code of its entry PC returns
RanCachedCode ==
    \E nd \in NdVals :
      /\ ch8 = Ended(prev, exec(prev, prev.mems[prev.pc], 1, 0, << >>, nd).c)
      /\ last.cyc = exec(prev, prev.mems[prev.pc], 1, 0, << >>, nd).r9
      /\ last.ops = exec(prev, prev.mems[prev.pc], 1, 0, << >>, nd).ops

\* C27: no call empties or replaces a cache entry, and a run_block() call at
\* a PC that has an entry, with halted = false, runs that entry's code
\* whatever the memory it was compiled from holds by now.
C27_CacheEntryNeverInvalidated ==
    /\ last.call # "none" =>
         \A p \in DOMAIN prev.mems :
           p \in DOMAIN ch8.mems /\ ch8.mems[p] = prev.mems[p]
    /\ (last.call = "run_block" /\ ~prev.halted /\ prev.pc \in DOMAIN prev.mems) =>
         last.path = "hit" /\ RanCachedCode

\* the block at 0x200 has run from the cache after its first word had been
\* rewritten to 7207: it has added to V1 again, and V2 is untouched
C27_Witness ==
    /\ last.call = "run_block"
    /\ last.path = "hit"
    /\ prev.pc = 512
    /\ fetch_op(prev) = 29191
    /\ last.ops = <<28935, 4612>>
    /\ ch8.regs[1] = (prev.regs[1] + 7) % 256
    /\ ch8.regs[2] = prev.regs[2]
    /\ ch8.fault = "none"


\* the latest call has done what one step() does, the sentinel of its entry
\* PC set, and has returned 1
RanOneStep ==
    /\ last.cyc = 1
    /\ last.ops = <<fetch_op(prev)>>
    /\ \E nd \in NdVals :
         ch8 = step([prev EXCEPT !.try_jit = Wr(prev.try_jit, prev.pc, FALSE, TRUE)],
                    last.file, nd.rnd)

\* the latest call is a run_block() that returned, made with halted = false
RunBlockReturned ==
    /\ last.call = "run_block"
    /\ ch8.fault = "none"
    /\ ~prev.halted

RomLogicLoop == <<28417, 24837, 25091, 33057, 4608>>
\* 6180 6201 8126 1200 : shift right, in a loop
RomShiftLoop == <<24960, 25089, 33062, 4608>>
\* A300 60AB F055 1200 : save V0, in a loop
RomSaveLoop == <<41728, 24747, 61525, 4608>>
\* 607E 611F A050 D015 1200 : a glyph across the right and bottom edges
RomDrawLoop == <<24702, 24863, 41040, 53269, 4608>>

RomsQuirk == <<RomLogicLoop, RomShiftLoop, RomSaveLoop, RomDrawLoop>>

QuirkBoxes == {"quirk_vf_reset", "quirk_memory", "quirk_shifting",
               "quirk_clipping", "quirk_disp_wait"}

InitQuirk == InitWith(RomsQuirk, {"none"}, BOOLEAN)

\* a quirk checkbox pressed between two run_block() calls
ClickQuirk ==
    /\ ch8.fault = "none"
    /\ last.calls < MaxSettings
    /\ \E q \in QuirkBoxes :
         Returned("toggle_quirk", ch8, Ret(toggle_quirk(ch8, q), 0, << >>, q),
                  flags_file)

\* run_block() between the presses
RunQuirk ==
    /\ ch8.fault = "none"
    /\ last.calls < MaxSettings
    /\ \E nd \in NdVals : run_block_call(set_keys(ch8, {}), nd)

NextQuirk == RunQuirk \/ ClickQuirk

SpecQuirk == InitQuirk /\ [][NextQuirk]_vars

\* the block that ran holds an opcode of class n0 whose low byte or nibble,
\* taken by mask, is in low
RanOp(n0, mask, low) ==
    \E k \in 1 .. Len(last.ops) :
      N0(last.ops[k]) = n0 /\ last.ops[k] % mask \in low

\* prev2 is the state the checkbox was pressed in, prev the state it left:
\* the flag changed is one an opcode of the block depends on
SensitiveChange ==
    \/ prev2.quirk_vf_reset # prev.quirk_vf_reset /\ RanOp(8, 16, {1, 2, 3})
    \/ prev2.quirk_shifting # prev.quirk_shifting /\ RanOp(8, 16, {6, 14})
    \/ prev2.quirk_memory # prev.quirk_memory /\ RanOp(15, 256, {85, 101})
    \/ prev2.quirk_clipping # prev.quirk_clipping /\ RanOp(13, 1, {0})
    \/ prev2.quirk_disp_wait # prev.quirk_disp_wait /\ RanOp(13, 1, {0})

\* the latest call ran a cached block right after the checkbox of a quirk
\* that one of its opcodes depends on was pressed
QuirkChangedRerun ==
    /\ last.call = "run_block"
    /\ last.path = "hit"
    /\ last.before = "toggle_quirk"
    /\ ch8.fault = "none"
    /\ SensitiveChange

\* C29: when a quirk flag has been changed since a cached block last ran, the
\* next run_block() execution of that block leaves what its opcodes leave
\* under the new flag values, that is what step() leaves for them.
C29_CachedBlockFollowsNewQuirk ==
    QuirkChangedRerun =>
      \E nd \in NdVals :
        /\ StepN(prev, last.file, Len(last.ops), nd.rnd).fault = "none"
        /\ Arch(StepN(prev, last.file, Len(last.ops), nd.rnd)) = Arch(ch8)


\* the latest call is a run_block() that ran a compiled block up to an FX0A
ReachedKeyWait ==
    /\ last.call = "run_block"
    /\ last.path \in {"hit", "compile"}
    /\ ch8.fault = "none"
    /\ last.ops # << >>
    /\ N0(last.ops[Len(last.ops)]) = 15
    /\ NN(last.ops[Len(last.ops)]) = 10

\* the latest call is a run_block() made while halted
RunBlockHalted ==
    /\ last.call = "run_block"
    /\ prev.halted
    /\ ch8.fault = "none"

\* the key latched in the register FX0A names
Latched(c) == c.regs[c.halt_reg]

\* C30: a compiled block that reaches an FX0A returns with halted set,
\* halt_reg = X, the wait in its first phase and PC at the FX0A; each later
\* run_block() call runs the halt handler only, compiles nothing and returns
\* 1: it changes nothing while no key is held, latches the lowest held key
\* and moves to the second phase once one is, changes nothing while that key
\* stays held, and on its release clears halted and leaves PC behind the FX0A.
C30_KeyWaitThroughRunBlock ==
    /\ ReachedKeyWait =>
         /\ ch8.halted
         /\ ch8.halt_reg = X(last.ops[Len(last.ops)])
         /\ ~ch8.halt_wait_for_release
         /\ OpAt(ch8, ch8.pc) = last.ops[Len(last.ops)]
         /\ Len(last.ops) = 1 => ch8.pc = prev.pc
    /\ RunBlockHalted =>
         /\ last.path = "halted"
         /\ last.cyc = 1
         /\ last.ops = << >>
         /\ ch8.mems = prev.mems
         /\ IF ~prev.halt_wait_for_release
            THEN IF KeysDown(prev) = {} THEN ch8 = prev
                 ELSE /\ ch8.halted
                      /\ ch8.halt_wait_for_release
                      /\ ch8.pc = prev.pc
                      /\ Latched(ch8) = lowest_key(prev)
            ELSE IF prev.keys_held[Latched(prev)] THEN ch8 = prev
                 ELSE /\ ~ch8.halted
                      /\ ch8.pc = prev.pc + 2
                      /\ ch8.regs = prev.regs

\* F30A at 0x200 was reached by its compiled block, key 3 was latched and is
\* released now: the call has left halted clear, V3 = 3 and PC = 0x202
C30_Witness ==
    /\ RunBlockHalted
    /\ 512 \in DOMAIN prev.mems
    /\ prev.pc = 512
    /\ prev.halt_reg = 3
    /\ prev.halt_wait_for_release
    /\ KeysDown(prev) = {}
    /\ ~ch8.halted
    /\ ch8.regs[3] = 3
    /\ ch8.pc = 514


\* the address of the last opcode of a block of register loads and adds that
\* ended in one more instruction
LastAddr == prev.pc + 2 * (Len(last.ops) - 1)

\* the latest call ran a block of register loads and adds ending in a
\* conditional skip whose next instruction is not jittable
SkipEndedBlock ==
    /\ last.call = "run_block"
    /\ last.path \in {"hit", "compile"}
    /\ ch8.fault = "none"
    /\ last.ops # << >>
    /\ \A k \in 1 .. Len(last.ops) - 1 : N0(last.ops[k]) \in {6, 7, 10}
    /\ is_skip_op(last.ops[Len(last.ops)])
    /\ OpAt(prev, LastAddr) = last.ops[Len(last.ops)]
    /\ ~jittable(prev, LastAddr + 2)

\* C31: a block that ends with a conditional skip at address a, the
\* instruction at a+2 not jittable, leaves PC = a+2 when the skip condition
\* is false and PC = a+4 when it is true, as step() does, wherever in the
\* block the skip stands.
C31_SkipExitSetsPc ==
    SkipEndedBlock =>
      /\ ch8.pc \in {LastAddr + 2, LastAddr + 4}
      /\ \E nd \in NdVals :
           ch8.pc = StepN(prev, last.file, Len(last.ops), nd.rnd).pc


(***************************************************************************)
(* Chip8::jittable against the specified set of translated opcodes.        *)
(***************************************************************************)
\* 00E0 00EE 00FE 00FF 00C1 00FB 1204 2204 3001 4001 5010 5012 5013 5011 6005
\* 7001 8010 8014 8016 801E 8018 9010 9011 A300 B300 C0FF D011 E09E E0A1 E000
\* F000 F100 F007 F00A F015 F018 F01E F029 F033 F055 F065 F075 F0FF
JitProbes == {224, 238, 254, 255, 193, 251, 4612, 8708, 12289, 16385, 20496,
              20498, 20499, 20497, 24581, 28673, 32784, 32788, 32790, 32798,
              32792, 36880, 36881, 41728, 45824, 49407, 53265, 57502, 57505,
              57344, 61440, 61696, 61447, 61450, 61461, 61464, 61470, 61481,
              61491, 61525, 61541, 61557, 61695}

InitJitProbe ==
    /\ \E w \in JitProbes : \E system \in Systems : \E checks \in BOOLEAN :
         ch8 = Boot(RomProbe(w), system, "none", checks)
    /\ flags_file = NoFile
    /\ prev = ch8
    /\ prev2 = ch8
    /\ last = NoCall
    /\ drv = NoDriver

NextJitProbe == RunBlockNoKeys

SpecJitProbe == InitJitProbe /\ [][NextJitProbe]_vars

\* the specified jittable set
SpecifiedJittable(op) ==
    CASE N0(op) = 0 -> NNN(op) \in {224, 238, 254, 255}
      [] N0(op) = 5 -> N(op) \in {0, 2, 3}
      [] N0(op) = 8 -> N(op) \in (0 .. 7) \cup {14}
      [] N0(op) = 9 -> N(op) = 0
      [] N0(op) = 14 -> NN(op) \in {158, 161}
      [] N0(op) = 15 -> NN(op) \in {0, 7, 10, 21, 24, 30, 51, 85, 101}
      [] N0(op) \in {1, 2, 3, 4, 6, 7, 10, 12, 13} -> TRUE
      [] OTHER -> FALSE

\* C32: at a PC that is not marked non-jittable, jittable(pc) is true exactly
\* for the words of the specified jittable set, and a run_block() call at a
\* PC for which it is true does not end in compile_ins's abort.
C32_JittableIsTheSpecifiedSet ==
    /\ (ch8.fault = "none" /\ ~jit_index_fails(ch8.pc) /\ TryJit(ch8, ch8.pc)) =>
         (jittable(ch8, ch8.pc) <=> SpecifiedJittable(OpAt(ch8, ch8.pc)))
    /\ (last.call = "run_block" /\ ~prev.halted /\ jittable(prev, prev.pc)) =>
         ch8.fault \notin {"compile", "exit"}

\* for the words compile_ins translates, jittable agrees with the specified
\* set except for 5XY2, 5XY3 and CXNN, which it leaves to step()
C32_JittableWhereTranslated ==
    (/\ ch8.fault = "none" /\ ~jit_index_fails(ch8.pc) /\ TryJit(ch8, ch8.pc)
     /\ compile_panic(OpAt(ch8, ch8.pc)) = "none"
     /\ ~(N0(OpAt(ch8, ch8.pc)) = 5 /\ N(OpAt(ch8, ch8.pc)) \in {2, 3})
     /\ N0(OpAt(ch8, ch8.pc)) # 12) =>
      (jittable(ch8, ch8.pc) <=> SpecifiedJittable(OpAt(ch8, ch8.pc)))


\* the block at the entry PC of the latest call is flagged as an infinite
\* loop: its epilogue adds the forced count
FlaggedBlock ==
    /\ prev.pc \in DOMAIN ch8.mems
    /\ ch8.mems[prev.pc][Len(ch8.mems[prev.pc])].v = INF_LOOP_CYC

\* the latest call is a run_block() that ran compiled code and returned
RanBlock ==
    /\ last.call = "run_block"
    /\ last.path \in {"hit", "compile"}
    /\ ch8.fault = "none"

RunBlockCalls == {k \in 1 .. Len(drv.trace) : drv.trace[k].call = "run_block"}

Marked(c) == {p \in DOMAIN c.try_jit : ~Rd(c.try_jit, p, TRUE)}

\* C35: no PC is both marked non-jittable and the entry of a cached block;
\* run_block() compiles a block only for an entry PC that has none, and no
\* call removes a block, so that each entry PC is compiled at most once.
C35_MarkAndBlockExclusive ==
    /\ Marked(ch8) \cap DOMAIN ch8.mems = {}
    /\ \A p \in DOMAIN ch8.mems : p < JIT_SIZE
    /\ last.path = "compile" => prev.pc \notin DOMAIN prev.mems
    /\ last.call # "none" => DOMAIN prev.mems \subseteq DOMAIN ch8.mems

\* 0x204 is marked, its word rewritten to a jittable one, and the block at
\* 0x208 has run from the cache
C35_Witness ==
    /\ 516 \in Marked(ch8)
    /\ jittable_op(OpAt(ch8, 516))
    /\ 520 \in DOMAIN ch8.mems
    /\ last.call = "run_block"
    /\ last.path = "hit"
    /\ prev.pc = 520
    /\ ch8.fault = "none"


\* the k-th instruction of the call e of the latest frame accessed data
\* memory inside a watched range, in the watched direction
WatchedAccess(e, k) ==
    watch_hit(step_accesses(StepN(e.before, NoFile, k - 1, 0)), drv.watchpoints)

\* C36: no instruction that a run_block() call of the run loop executes
\* accesses data memory inside a watched range in the watched direction: the
\* driver pauses before such an instruction, at whatever position of a
\* compiled block it stands.
C36_WatchpointGuardsEveryInstruction ==
    last.call = "frame" =>
      \A n \in RunBlockCalls \cap Returns :
        \A k \in 1 .. Len(drv.trace[n].ops) : ~WatchedAccess(drv.trace[n], k)

\* the part of C36 that holds: the first instruction of each call is guarded
C36_WatchpointGuardsFirstInstruction ==
    last.call = "frame" =>
      \A n \in RunBlockCalls \cap Returns :
        drv.trace[n].ops # << >> => ~WatchedAccess(drv.trace[n], 1)

\* the driver has paused in front of a block whose first instruction reads
\* the watched glyph
C36_Witness ==
    /\ last.call = "frame"
    /\ drv.watchpoints # << >>
    /\ ch8.paused
    /\ ~drv.entry.paused
    /\ watch_hit(step_accesses(ch8), drv.watchpoints)


\* the address of the k-th opcode of a block whose first k-1 opcodes are
\* register loads and adds
AddrOf(k) == prev.pc + 2 * (k - 1)

\* the core in front of the k-th instruction, as step() calls leave it
Upto(k) == StepN(prev, last.file, k - 1, 0)

\* the k-th opcode of the block that ran is a conditional skip at AddrOf(k),
\* the word behind it is a jittable conditional skip, and the block ran on
NestedSkipAt(k) ==
    /\ k < Len(last.ops)
    /\ \A j \in 1 .. k - 1 : N0(last.ops[j]) \in {6, 7, 10}
    /\ is_skip_op(last.ops[k])
    /\ OpAt(prev, AddrOf(k)) = last.ops[k]
    /\ is_skip_op(OpAt(prev, AddrOf(k) + 2))
    /\ jittable(prev, AddrOf(k) + 2)

\* C37: in a compiled block, a conditional skip at a in front of a jittable
\* conditional skip at a+2 is followed by the instruction step() executes
\* next: the one at a+4 when the skip at a is taken, and the skip at a+2,
\* deciding on its own condition, when it is not.
C37_NestedSkipSkipsOne ==
    RanBlock =>
      \A k \in 1 .. Len(last.ops) :
        NestedSkipAt(k) =>
          /\ last.ops[k + 1] = OpAt(prev, step(Upto(k), last.file, 0).pc)
          /\ (step(Upto(k), last.file, 0).pc = AddrOf(k) + 2 /\ k + 1 < Len(last.ops)) =>
               last.ops[k + 2] = OpAt(prev, StepN(Upto(k), last.file, 2, 0).pc)

\* a taken skip in front of a jittable skip has run in a block
C37_Witness ==
    /\ RanBlock
    /\ \E k \in 1 .. Len(last.ops) :
         NestedSkipAt(k) /\ step(Upto(k), last.file, 0).pc = AddrOf(k) + 4


(***************************************************************************)
(* EX9E and EXA1 over the values of VX.                                    *)
(***************************************************************************)
KeyValues == {0, 5, 15, 16, 255}

\* 60vv E09E 6101 E0A1 6202
RomKeySkip(v) == <<24576 + v, 57502, 24833, 57505, 25090>>

InitKeySkip ==
    /\ \E v \in KeyValues : \E system \in Systems : \E checks \in BOOLEAN :
         ch8 = Boot(RomKeySkip(v), system, "none", checks)
    /\ flags_file = NoFile
    /\ prev = ch8
    /\ prev2 = ch8
    /\ last = NoCall
    /\ drv = NoDriver

NextKeySkip == Step \/ RunBlock

SpecKeySkip == InitKeySkip /\ [][NextKeySkip]_vars

\* the latest call executed an EX9E or an EXA1
RanKeySkip ==
    /\ last.call \in {"step", "run_block"}
    /\ \E k \in 1 .. Len(last.ops) :
         N0(last.ops[k]) = 14 /\ NN(last.ops[k]) \in {158, 161}

\* C38: a call that executes EX9E or EXA1 completes without fault whatever
\* VX holds: it reads no key state outside keys_held[0..15].
C38_KeySkipIndexInRange ==
    RanKeySkip => ch8.fault = "none"

\* the part of C38 that holds: with VX in 0..15 the call completes
C38_KeySkipSmallIndex ==
    (RanKeySkip /\ NN(OpAt(prev, 512)) < 16) => ch8.fault = "none"


(***************************************************************************)
(* Sprites drawn at chosen coordinates, in both resolutions in turn.       *)
(***************************************************************************)
DrawXs == {0, 63, 255}

DrawYs == {0, 63, 255}

DrawNs == {0, 15}

\* F301 (00FE | 00FF) 60xx 61yy A050 D01N (00FF | 00FE) D01N : both planes,
\* the resolution, the coordinates, and the sprite drawn in one resolution
\* and then in the other
RomDrawAt(mode, vx, vy, n) ==
    <<62209, mode, 24576 + vx, 24832 + vy, 41040, 53264 + n, 509 - mode,
      53264 + n>>

InitDrawAt ==
    /\ \E mode \in {254, 255} : \E vx \in DrawXs : \E vy \in DrawYs :
         \E n \in DrawNs : \E flip \in {"none", "quirk_clipping"} :
           ch8 = Boot(RomDrawAt(mode, vx, vy, n), "XOCHIP", flip, TRUE)
    /\ flags_file = NoFile
    /\ prev = ch8
    /\ prev2 = ch8
    /\ last = NoCall
    /\ drv = NoDriver

NextDrawAt == StepNoKeys \/ RunBlockNoKeys

SpecDrawAt == InitDrawAt /\ [][NextDrawAt]_vars

\* the latest call executed a DXYN
RanDraw ==
    /\ last.call \in {"step", "run_block"}
    /\ \E k \in 1 .. Len(last.ops) : N0(last.ops[k]) = 13

\* C39: a call that executes DXYN, the sprite's bytes inside the memory,
\* uses no VRAM index outside [0, WIDTH * HEIGHT): it ends without an index
\* fault, and every cell that holds a pixel lies inside the screen.
C39_DrawIndexInRange ==
    /\ RanDraw => ch8.fault = "none"
    /\ DOMAIN ch8.vram \subseteq 0 .. WIDTH * HEIGHT - 1

\* a lo-res 2x2 block has been drawn into the last cell of the screen
C39_Witness ==
    /\ RanDraw
    /\ ~ch8.hires
    /\ ch8.fault = "none"
    /\ Rd(ch8.vram, WIDTH * HEIGHT - 1, 0) # 0
    /\ Rd(ch8.vram, WIDTH * HEIGHT - WIDTH - 2, 0) # 0


\* the latest frame started paused, with neither Step nor Reset pressed
PausedFrame ==
    /\ last.call = "frame"
    /\ prev.paused
    /\ ~drv.did_reset
    /\ drv.trace = << >>
    /\ ch8.fault = "none"

\* the latest frame ran with Step pressed
SingleStepFrame ==
    /\ last.call = "frame"
    /\ ~drv.did_reset
    /\ drv.trace # << >>
    /\ drv.trace[1].call = "step"
    /\ ch8.fault = "none"

\* the fields of the core that a frame without a call leaves alone apart
\* from the timers
Untimed(c) == <<c.regs, c.i, c.pc, c.stack, c.sp, c.mem, c.vram, c.halted>>

\* C40: a frame that starts paused with no single step requested executes
\* no instruction and leaves the registers, I, PC, the stack, SP, memory,
\* VRAM, delay, sound and halted unchanged; a single-step request executes
\* exactly one step() and leaves paused set.
C40_PausedFrameChangesNothing ==
    /\ PausedFrame =>
         /\ Untimed(ch8) = Untimed(prev)
         /\ ch8.delay = prev.delay
         /\ ch8.sound = prev.sound
    /\ SingleStepFrame => Len(drv.trace) = 1 /\ drv.at_end.paused

\* the part of C40 that holds: all of it but the timers, which the end of
\* the paused frame lowers like that of any other frame
C40_PausedFrameKeepsAllButTimers ==
    /\ PausedFrame =>
         /\ Untimed(ch8) = Untimed(prev)
         /\ ch8.delay = tick(prev.delay)
         /\ ch8.sound = tick(prev.sound)
         /\ drv.at_end.paused
    /\ SingleStepFrame => Len(drv.trace) = 1 /\ drv.at_end.paused

===========================================================================
